---- MODULE Spec2Model ----
(***************************************************************************)
(* A model of the fleet monitor of aliyun-spot-autoopen: the instance      *)
(* registry, the notification cooldown table, the two traffic shutdown     *)
(* latches, the check cycle (Monitor.Check / Monitor.checkInstance), the   *)
(* traffic budget enforcer (Monitor.CheckTraffic) and the detached bulk    *)
(* shutdown (Monitor.shutdownRegionInstances).                             *)
(***************************************************************************)
EXTENDS Integers, Sequences, FiniteSets, Bags, TLC

VARIABLES
    cfg,              \* config.Config: the fields the monitor reads
    instances,        \* Monitor.instances: the registry
    lastNotify,       \* Monitor.lastNotify: key -> time of the last recorded alert
    lastDelivered,    \* key -> time the notifier last delivered an alert for it
    chinaShutdown,    \* Monitor.chinaShutdown
    nonChinaShutdown, \* Monitor.nonChinaShutdown
    now,              \* the wall clock (time.Now), in cooldown units
    cloud,            \* the provider's side: lifecycle status of every instance
    chk,              \* the check task: position in Check / checkInstance
    refreshLog,       \* what the last refreshInstances logged
    shut,             \* the detached shutdownRegionInstances goroutines (a bag)
    traffic,          \* the last CheckTraffic call: what it saw and did
    disc,             \* the last DiscoverInstances call: what it returned and sent
    reg,              \* Monitor.mu and the tasks that read and replace the registry
    gcp,              \* Monitor.gcpBilling and the last CheckGCPCredits call
    cbwp,             \* the provider's EIPs and the last bandwidth package callback
    bot,              \* the last command or callback the bot handed to the monitor
    lk,               \* the three locks of the monitor and the tasks that take them
    poll              \* the bot's polling loop: its offset, position and Telegram's queue

vars == <<cfg, instances, lastNotify, lastDelivered, chinaShutdown, nonChinaShutdown, now,
          cloud, chk, refreshLog, shut, traffic, disc, reg, gcp, cbwp, bot, lk, poll>>

----------------------------------------------------------------------------
(* Bounds of the model *)

MaxTime == 3
MaxRetryCount == 2
MaxPolls == 2
MaxTraffic == 2
MaxShutdownTasks == 2
MaxConcurrentScans == 2
MaxDiscoveries == 2
MaxPct == 2
MaxCallbacks == 2
MaxCommands == 2
MaxUpdates == 2
MaxLaunches == 3
PageSize == 1
NotifyCooldown == 1
TrafficLimitChinaGB == 1
TrafficLimitNonChinaGB == 2

----------------------------------------------------------------------------
(* The fleet *)

InstanceIDs == {"i-001", "i-002", "i-003"}

RegionOf(id) ==
    CASE id = "i-001" -> "cn-hangzhou"
      [] id = "i-002" -> "us-west-1"
      [] id = "i-003" -> "cn-beijing"

\* aliyun.SpotInstance, the fields the monitor reads
SpotInstance(id) == [InstanceID |-> id, RegionID |-> RegionOf(id)]

\* The China-mainland group of regions
IsChinaMainlandRegion(regionID) == regionID \in {"cn-hangzhou", "cn-beijing"}

Statuses == {"Running", "Stopped", "Starting", "Stopping"}

\* "Released": the instance does not exist at the provider
Released == "Released"

Never == -1

Keys == InstanceIDs \cup {"gcp-credits"}

IDsOf(seq) == {seq[k].InstanceID : k \in 1..Len(seq)}

Range(seq) == {seq[k] : k \in 1..Len(seq)}

\* Sequences over S without repetition
InjectiveSeqs(S) ==
    UNION {{s \in [1..n -> S] : \A a, b \in 1..n : a # b => s[a] # s[b]} :
             n \in 0..Cardinality(S)}

----------------------------------------------------------------------------
(* Collaborators *)

Existing == {id \in InstanceIDs : cloud[id] # Released}

\* ECSClient.GetAllRegions: the regions of the account
Regions == {RegionOf(id) : id \in InstanceIDs}

\* ECSClient.GetSpotInstances, when it succeeds: the instances of the region
\* (every instance of the fleet is in a region of its own)
InRegion(r) == {id \in Existing : RegionOf(id) = r}

\* The orders in which the instances S can be appended to the result
AppendOrders(S) == {s \in InjectiveSeqs(S) : Len(s) = Cardinality(S)}

\* ECSClient.DiscoverAllSpotInstances: an error when listing regions fails;
\* otherwise, the listing of the regions in failed having failed, the
\* instances of the other regions in the order the per-region tasks
\* appended them, and no error.
DiscoverAllSpotInstances ==
    {[err |-> TRUE, failed |-> {}, list |-> <<>>]} \cup
    UNION {{[err |-> FALSE, failed |-> F,
             list |-> [k \in 1..Len(s) |-> SpotInstance(s[k])]] :
               s \in AppendOrders({id \in Existing : RegionOf(id) \notin F})} :
           F \in SUBSET Regions}

\* ECSClient.GetInstanceStatus: a transient error, "not found" for an
\* instance that no longer exists, or the status
GetInstanceStatus(id) ==
    {[err |-> TRUE, status |-> ""]} \cup
    (IF cloud[id] = Released THEN {} ELSE {[err |-> FALSE, status |-> cloud[id]]})

\* The answer to a command sent to the provider. err: what the client
\* returns is an error; status: the instance's status afterwards; conflict:
\* the provider rejected the command with IncorrectInstanceStatus
Answer(cmd, err, status, conflict) ==
    [cmd |-> cmd, err |-> err, status |-> status, conflict |-> conflict]

\* Mutant of StartInstance: the stop request is sent instead
StartInstanceSendsStop(id) ==
    {Answer("StopInstance", TRUE, cloud[id], FALSE)} \cup
    (IF cloud[id] = Released THEN {}
     ELSE IF cloud[id] = "Running"
     THEN {Answer("StopInstance", FALSE, "Stopping", FALSE)}
     ELSE {Answer("StopInstance", FALSE, cloud[id], TRUE)})

\* ECSClient.StartInstance: an error, or nil with the instance's new status.
\* A stopped instance is started; for an instance in another status the
\* provider answers IncorrectInstanceStatus, which the client swallows and
\* reports as nil, the status unchanged. cmd: the command sent to the
\* provider.
StartInstance(id) ==
    {Answer("StartInstance", TRUE, cloud[id], FALSE)} \cup
    (IF cloud[id] = Released THEN {}
     ELSE IF cloud[id] = "Stopped"
     THEN {Answer("StartInstance", FALSE, "Starting", FALSE)}
     ELSE {Answer("StartInstance", FALSE, cloud[id], TRUE)})

\* Mutant of StopInstance: IncorrectInstanceStatus is returned as an error
StopInstanceReportsConflict(id) ==
    {Answer("StopInstance", TRUE, cloud[id], FALSE)} \cup
    (IF cloud[id] = Released THEN {}
     ELSE IF cloud[id] = "Running"
     THEN {Answer("StopInstance", FALSE, "Stopping", FALSE)}
     ELSE {Answer("StopInstance", TRUE, cloud[id], TRUE)})

\* ECSClient.StopInstance, likewise
StopInstance(id) ==
    {Answer("StopInstance", TRUE, cloud[id], FALSE)} \cup
    (IF cloud[id] = Released THEN {}
     ELSE IF cloud[id] = "Running"
     THEN {Answer("StopInstance", FALSE, "Stopping", FALSE)}
     ELSE {Answer("StopInstance", FALSE, cloud[id], TRUE)})

\* notifier.Notify...: nothing is sent without a notifier (m.notifier == nil);
\* with one, the delivery succeeds or fails. The result is the set of
\* possible records of the send.
Notify(kind) ==
    IF cfg.TelegramEnabled
    THEN {<<[kind |-> kind, delivered |-> d]>> : d \in BOOLEAN}
    ELSE {<<>>}

----------------------------------------------------------------------------
(* The cooldown table *)

\* Mutant of canNotify: eligible again at the end of the window already
canNotifyAtWindowEnd(key) ==
    IF lastNotify[key] = Never THEN TRUE
    ELSE now - lastNotify[key] >= NotifyCooldown

\* Monitor.canNotify
canNotify(key) ==
    IF lastNotify[key] = Never THEN TRUE
    ELSE now - lastNotify[key] > NotifyCooldown

\* Monitor.updateNotifyTime
updateNotifyTime(key) == [lastNotify EXCEPT ![key] = now]

----------------------------------------------------------------------------
(* The registry *)

\* refreshInstances: the instances logged as new
AddedLog(old, new) ==
    SelectSeq(new, LAMBDA inst : inst.InstanceID \notin IDsOf(old))

\* Mutant of RemovedLog: the whole previous registry is logged as removed
RemovedLogAll(old, new) == old

\* refreshInstances: the instances logged as removed
RemovedLog(old, new) ==
    SelectSeq(old, LAMBDA inst : inst.InstanceID \notin IDsOf(new))

\* What the last refreshInstances call did. called: it was called; err,
\* failed: what the discovery returned; ran: the reconciliation was done;
\* old: the registry at the call
NoLog == [called |-> FALSE, err |-> FALSE, failed |-> {}, ran |-> FALSE,
          old |-> <<>>, new |-> <<>>, added |-> <<>>, removed |-> <<>>]

\* Monitor.refreshInstances: on a discovery error the registry is kept;
\* otherwise the changes are logged and the registry replaced, under m.mu
refreshInstances(d) ==
    IF d.err
    THEN /\ instances' = instances
         /\ refreshLog' = [NoLog EXCEPT !.called = TRUE, !.err = TRUE,
                                        !.old = instances]
    ELSE /\ instances' = d.list
         /\ refreshLog' = [called |-> TRUE, err |-> FALSE, failed |-> d.failed,
                           ran |-> TRUE, old |-> instances, new |-> d.list,
                           added |-> AddedLog(instances, d.list),
                           removed |-> RemovedLog(instances, d.list)]

----------------------------------------------------------------------------
(* The registry under Monitor.mu, access by access *)

\* The tasks that copy the registry: the check cycle, a bulk shutdown, a
\* bot command
Readers == {"Check", "shutdownRegionInstances", "sendStatusReport"}

\* A slot of the copy that copy() did not fill
NilInstance == [InstanceID |-> "nil", RegionID |-> "nil"]

\* A reader at rest. n: len(m.instances) as make() read it; copy: the copy;
\* atLock: the registry when the reader took the read lock
NoRead == [pc |-> "idle", n |-> 0, copy |-> <<>>, atLock |-> <<>>]

\* mu: the lock, held by a writer or by readers; rd: the readers; wr: the
\* task replacing the registry and the list it installs
RegIdle ==
    [mu |-> [writer |-> FALSE, readers |-> {}],
     rd |-> [r \in Readers |-> NoRead],
     wr |-> [pc |-> "idle", new |-> <<>>]]

\* sync.RWMutex.RLock succeeds when no writer holds the lock
CanRLock(mu) == ~mu.writer

\* Mutant of CanLock: the writer does not wait for the readers
CanLockDespiteReaders(mu) == ~mu.writer

\* sync.RWMutex.Lock succeeds when nobody holds the lock
CanLock(mu) == ~mu.writer /\ mu.readers = {}

\* copy(dst, m.instances) into a slice of n slots: the first min(n, len)
\* elements
CopyOf(n, list) ==
    [k \in 1..n |-> IF k <= Len(list) THEN list[k] ELSE NilInstance]

RegStep(r) ==
    /\ reg' = r
    /\ UNCHANGED <<poll, bot, lk, cbwp, gcp, cfg, lastNotify, lastDelivered, chinaShutdown,
                   nonChinaShutdown, now, cloud, chk, refreshLog, shut, traffic, disc>>

\* m.mu.RLock()
RLock(r) ==
    /\ reg.rd[r].pc = "idle"
    /\ CanRLock(reg.mu)
    /\ RegStep([reg EXCEPT !.mu.readers = reg.mu.readers \cup {r},
                           !.rd[r] = [NoRead EXCEPT !.pc = "make",
                                                    !.atLock = instances]])
    /\ UNCHANGED instances

\* instances := make([]*aliyun.SpotInstance, len(m.instances))
ReadLen(r) ==
    /\ reg.rd[r].pc = "make"
    /\ RegStep([reg EXCEPT !.rd[r].pc = "copy", !.rd[r].n = Len(instances)])
    /\ UNCHANGED instances

\* copy(instances, m.instances)
ReadCopy(r) ==
    /\ reg.rd[r].pc = "copy"
    /\ RegStep([reg EXCEPT !.rd[r].pc = "unlock",
                           !.rd[r].copy = CopyOf(reg.rd[r].n, instances)])
    /\ UNCHANGED instances

\* m.mu.RUnlock(): the reader goes on with its copy
RUnlock(r) ==
    /\ reg.rd[r].pc = "unlock"
    /\ RegStep([reg EXCEPT !.mu.readers = reg.mu.readers \ {r},
                           !.rd[r].pc = "done"])
    /\ UNCHANGED instances

\* The reader has used its copy
ReadEnd(r) ==
    /\ reg.rd[r].pc = "done"
    /\ RegStep([reg EXCEPT !.rd[r] = NoRead])
    /\ UNCHANGED instances

\* refreshInstances, DiscoverInstances: m.mu.Lock(), with the discovery's
\* result in hand
Lock ==
    /\ reg.wr.pc = "idle"
    /\ CanLock(reg.mu)
    /\ \E d \in DiscoverAllSpotInstances :
         /\ ~d.err
         /\ RegStep([reg EXCEPT !.mu.writer = TRUE,
                                !.wr = [pc |-> "assign", new |-> d.list]])
    /\ UNCHANGED instances

\* m.instances = instances
Assign ==
    /\ reg.wr.pc = "assign"
    /\ instances' = reg.wr.new
    /\ RegStep([reg EXCEPT !.wr.pc = "unlock"])

\* m.mu.Unlock()
Unlock ==
    /\ reg.wr.pc = "unlock"
    /\ RegStep([reg EXCEPT !.mu.writer = FALSE,
                           !.wr = [pc |-> "idle", new |-> <<>>]])
    /\ UNCHANGED instances

RegistryTask ==
    \/ \E r \in Readers :
         RLock(r) \/ ReadLen(r) \/ ReadCopy(r) \/ RUnlock(r) \/ ReadEnd(r)
    \/ Lock \/ Assign \/ Unlock

----------------------------------------------------------------------------
(* The check task: Monitor.Check and Monitor.checkInstance *)

\* The locals of one checkInstance call
NoGate == [state |-> "none", at |-> 0, last |-> Never, heard |-> Never]

\* read: the latches as they were when the call read them; gate: what
\* canNotify answered, when, the table's entry it answered from and the time
\* of the last delivered alert then; exit: the return statement taken;
\* cmds: the commands the call has sent to the provider; sleeps: the
\* inter-retry delays the retry loop has slept; conflict: the provider
\* rejected the last start command with IncorrectInstanceStatus; inst: the
\* call's variable inst after the refresh that follows a successful start
NoCall == [read |-> {}, blocked |-> FALSE, status |-> "none", gate |-> NoGate,
           i |-> 0, polls |-> 0, lastErr |-> "nil", starts |-> 0,
           notes |-> <<>>, cdWrites |-> 0, ret |-> "none", exit |-> "none",
           cmds |-> {}, sleeps |-> 0, conflict |-> FALSE, inst |-> NilInstance]

\* The check task at rest. snap: the cycle's copy of the registry; idx: the
\* loop's position in it; calls: the checkInstance calls of the cycle, in
\* order, and whether each returned an error; ret: what Check returned
ChkIdle == [pc |-> "idle", snap |-> <<>>, idx |-> 0, call |-> NoCall,
            calls |-> <<>>, ret |-> "none"]

Inst == chk.snap[chk.idx]

\* Mutant of Blocked: the two latches swapped
BlockedSwapped(inst) ==
    \/ IsChinaMainlandRegion(inst.RegionID) /\ nonChinaShutdown
    \/ ~IsChinaMainlandRegion(inst.RegionID) /\ chinaShutdown

\* checkInstance: blocked := (isChina && chinaShutdown) || (!isChina && nonChinaShutdown)
Blocked(inst) ==
    \/ IsChinaMainlandRegion(inst.RegionID) /\ chinaShutdown
    \/ ~IsChinaMainlandRegion(inst.RegionID) /\ nonChinaShutdown

\* Mutant of NeedsStart: whatever is not running is started
NeedsStartUnlessRunning(status) == status # "Running"

\* checkInstance: only a stopped instance is handled
NeedsStart(status) == status = "Stopped"

\* Mutant of RetryLeft: one attempt too many
RetryLeftOffByOne(i) == i <= cfg.RetryCount

\* checkInstance: the retry loop's condition, i < m.cfg.RetryCount
RetryLeft(i) == i < cfg.RetryCount

\* waitForRunning: the deadline has not expired
WaitLeft(polls) == polls < MaxPolls

\* Check: refreshInstances, a failure is only logged
CheckRefresh ==
    /\ chk.pc = "idle"
    /\ \E d \in DiscoverAllSpotInstances : refreshInstances(d)
    /\ chk' = [ChkIdle EXCEPT !.pc = "snapshot"]
    /\ UNCHANGED <<poll, bot, lk, cbwp, gcp, reg, lastDelivered, cfg, lastNotify, chinaShutdown, nonChinaShutdown, now, cloud,
                   shut, traffic, disc>>

\* Check: the copy of the registry taken under the read lock
CheckSnapshot ==
    /\ chk.pc = "snapshot"
    /\ chk' = [ChkIdle EXCEPT !.pc = "loop", !.snap = instances, !.idx = 1]
    /\ refreshLog' = NoLog
    /\ UNCHANGED <<poll, bot, lk, cbwp, gcp, reg, lastDelivered, cfg, instances, lastNotify, chinaShutdown, nonChinaShutdown,
                   now, cloud, shut, traffic, disc>>

\* Check: the loop is over, Check returns nil
CheckDone ==
    /\ chk.pc = "loop"
    /\ chk.idx > Len(chk.snap)
    /\ chk' = [chk EXCEPT !.pc = "idle", !.ret = "nil"]
    /\ UNCHANGED <<poll, bot, lk, cbwp, gcp, reg, lastDelivered, cfg, instances, lastNotify, chinaShutdown, nonChinaShutdown,
                   now, cloud, refreshLog, shut, traffic, disc>>

\* checkInstance: the latch is read under trafficShutdownMu
CiReadLatch ==
    /\ chk.pc = "loop"
    /\ chk.idx <= Len(chk.snap)
    /\ LET read == {g \in {"china", "non-china"} :
                        IF g = "china" THEN chinaShutdown ELSE nonChinaShutdown}
           calls == Append(chk.calls, [id |-> Inst.InstanceID, failed |-> FALSE])
       IN IF Blocked(Inst)
          THEN chk' = [chk EXCEPT !.pc = "return",
                                  !.calls = calls,
                                  !.call = [NoCall EXCEPT !.read = read,
                                                          !.blocked = TRUE,
                                                          !.ret = "nil",
                                                          !.exit = "blocked"]]
          ELSE chk' = [chk EXCEPT !.pc = "status",
                                  !.calls = calls,
                                  !.call = [NoCall EXCEPT !.read = read]]
    /\ UNCHANGED <<poll, bot, lk, cbwp, gcp, reg, lastDelivered, cfg, instances, lastNotify, chinaShutdown, nonChinaShutdown,
                   now, cloud, refreshLog, shut, traffic, disc>>

\* Mutant of CiStatus: an instance whose status query failed is taken for a
\* stopped one
CiStatusErrorMeansStopped ==
    /\ chk.pc = "status"
    /\ \E r \in GetInstanceStatus(Inst.InstanceID) :
         IF r.err
         THEN chk' = [chk EXCEPT !.pc = "cooldown", !.call.status = "error",
                                 !.call.ret = "status error",
                                 !.call.exit = "status error"]
         ELSE IF NeedsStart(r.status)
         THEN chk' = [chk EXCEPT !.pc = "cooldown", !.call.status = r.status]
         ELSE chk' = [chk EXCEPT !.pc = "return", !.call.status = r.status,
                                 !.call.ret = "nil", !.call.exit = "not stopped"]
    /\ UNCHANGED <<poll, bot, lk, cbwp, gcp, reg, lastDelivered, cfg, instances, lastNotify, chinaShutdown, nonChinaShutdown,
                   now, cloud, refreshLog, shut, traffic, disc>>

\* checkInstance: the status query
CiStatus ==
    /\ chk.pc = "status"
    /\ \E r \in GetInstanceStatus(Inst.InstanceID) :
         IF r.err
         THEN chk' = [chk EXCEPT !.pc = "return", !.call.status = "error",
                                 !.call.ret = "status error",
                                 !.call.exit = "status error"]
         ELSE IF NeedsStart(r.status)
         THEN chk' = [chk EXCEPT !.pc = "cooldown", !.call.status = r.status]
         ELSE chk' = [chk EXCEPT !.pc = "return", !.call.status = r.status,
                                 !.call.ret = "nil", !.call.exit = "not stopped"]
    /\ UNCHANGED <<poll, bot, lk, cbwp, gcp, reg, lastDelivered, cfg, instances, lastNotify, chinaShutdown, nonChinaShutdown,
                   now, cloud, refreshLog, shut, traffic, disc>>

\* The time of the last delivered alert, after the sends n for key
Delivered(key, n) ==
    IF \E j \in 1..Len(n) : n[j].delivered
    THEN [lastDelivered EXCEPT ![key] = now]
    ELSE lastDelivered

\* checkInstance: the cooldown gate and the "reclaimed" notification
CiCooldown ==
    /\ chk.pc = "cooldown"
    /\ LET gate == [at |-> now, last |-> lastNotify[Inst.InstanceID],
                    heard |-> lastDelivered[Inst.InstanceID]] IN
         IF canNotify(Inst.InstanceID)
         THEN \E n \in Notify("reclaimed") :
                /\ chk' = [chk EXCEPT
                      !.pc = "update",
                      !.call.gate = [state |-> "open", at |-> gate.at,
                                     last |-> gate.last, heard |-> gate.heard],
                      !.call.notes = chk.call.notes \o n]
                /\ lastDelivered' = Delivered(Inst.InstanceID, n)
         ELSE /\ chk' = [chk EXCEPT
                    !.pc = "retry",
                    !.call.gate = [state |-> "closed", at |-> gate.at,
                                   last |-> gate.last, heard |-> gate.heard]]
              /\ lastDelivered' = lastDelivered
    /\ UNCHANGED <<poll, bot, lk, cbwp, gcp, reg, cfg, instances, lastNotify, chinaShutdown, nonChinaShutdown,
                   now, cloud, refreshLog, shut, traffic, disc>>

\* Mutant of CiUpdateNotifyTime: the timestamp is recorded only if the
\* "reclaimed" alert was delivered
CiUpdateNotifyTimeIfDelivered ==
    /\ chk.pc = "update"
    /\ lastNotify' =
         IF \E j \in 1..Len(chk.call.notes) : chk.call.notes[j].delivered
         THEN updateNotifyTime(Inst.InstanceID)
         ELSE lastNotify
    /\ chk' = [chk EXCEPT !.pc = "retry",
                          !.call.cdWrites = chk.call.cdWrites + 1]
    /\ UNCHANGED <<poll, bot, lk, cbwp, gcp, reg, lastDelivered, cfg, instances, chinaShutdown, nonChinaShutdown, now, cloud,
                   refreshLog, shut, traffic, disc>>

\* checkInstance: m.updateNotifyTime(inst.InstanceID)
CiUpdateNotifyTime ==
    /\ chk.pc = "update"
    /\ lastNotify' = updateNotifyTime(Inst.InstanceID)
    /\ chk' = [chk EXCEPT !.pc = "retry",
                          !.call.cdWrites = chk.call.cdWrites + 1]
    /\ UNCHANGED <<poll, bot, lk, cbwp, gcp, reg, lastDelivered, cfg, instances, chinaShutdown, nonChinaShutdown, now, cloud,
                   refreshLog, shut, traffic, disc>>

\* checkInstance: if i > 0 { time.Sleep(RetryInterval) }
Slept(i, sleeps) == IF i > 0 THEN sleeps + 1 ELSE sleeps

\* checkInstance: one iteration of the retry loop, up to its start command:
\* the inter-retry delay, but for the first attempt, and StartInstance
CiStart ==
    /\ chk.pc = "retry"
    /\ RetryLeft(chk.call.i)
    /\ \E r \in StartInstance(Inst.InstanceID) :
         /\ cloud' = [cloud EXCEPT ![Inst.InstanceID] = r.status]
         /\ IF r.err
            THEN chk' = [chk EXCEPT !.call.starts = chk.call.starts + 1,
                                    !.call.sleeps = Slept(chk.call.i, chk.call.sleeps),
                                    !.call.conflict = r.conflict,
                                    !.call.cmds = chk.call.cmds \cup {r.cmd},
                                    !.call.lastErr = "start failed",
                                    !.call.i = chk.call.i + 1]
            ELSE chk' = [chk EXCEPT !.pc = "wait",
                                    !.call.starts = chk.call.starts + 1,
                                    !.call.sleeps = Slept(chk.call.i, chk.call.sleeps),
                                    !.call.conflict = r.conflict,
                                    !.call.cmds = chk.call.cmds \cup {r.cmd},
                                    !.call.polls = 0]
    /\ UNCHANGED <<poll, bot, lk, cbwp, gcp, reg, lastDelivered, cfg, instances, lastNotify, chinaShutdown, nonChinaShutdown,
                   now, refreshLog, shut, traffic, disc>>

\* waitForRunning: one tick of the polling ticker
CiPoll ==
    /\ chk.pc = "wait"
    /\ WaitLeft(chk.call.polls)
    /\ \E r \in GetInstanceStatus(Inst.InstanceID) :
         IF ~r.err /\ r.status = "Running"
         THEN chk' = [chk EXCEPT !.pc = "started"]
         ELSE chk' = [chk EXCEPT !.call.polls = chk.call.polls + 1]
    /\ UNCHANGED <<poll, bot, lk, cbwp, gcp, reg, lastDelivered, cfg, instances, lastNotify, chinaShutdown, nonChinaShutdown,
                   now, cloud, refreshLog, shut, traffic, disc>>

\* Mutant of CiTimeout: the deadline does not end the wait, which goes on
\* with a new deadline
CiTimeoutRearms ==
    /\ chk.pc = "wait"
    /\ ~WaitLeft(chk.call.polls)
    /\ chk' = [chk EXCEPT !.call.polls = 0]
    /\ UNCHANGED <<poll, bot, lk, cbwp, gcp, reg, lastDelivered, cfg, instances, lastNotify, chinaShutdown, nonChinaShutdown,
                   now, cloud, refreshLog, shut, traffic, disc>>

\* Mutant of CiTimeout: the attempt whose wait timed out is not counted
CiTimeoutNotCounted ==
    /\ chk.pc = "wait"
    /\ ~WaitLeft(chk.call.polls)
    /\ chk' = [chk EXCEPT !.pc = "retry", !.call.lastErr = "timeout",
                          !.call.polls = 0]
    /\ UNCHANGED <<poll, bot, lk, cbwp, gcp, reg, lastDelivered, cfg, instances, lastNotify, chinaShutdown, nonChinaShutdown,
                   now, cloud, refreshLog, shut, traffic, disc>>

\* waitForRunning: the deadline expires, the attempt has failed
CiTimeout ==
    /\ chk.pc = "wait"
    /\ ~WaitLeft(chk.call.polls)
    /\ chk' = [chk EXCEPT !.pc = "retry", !.call.lastErr = "timeout",
                          !.call.i = chk.call.i + 1, !.call.polls = 0]
    /\ UNCHANGED <<poll, bot, lk, cbwp, gcp, reg, lastDelivered, cfg, instances, lastNotify, chinaShutdown, nonChinaShutdown,
                   now, cloud, refreshLog, shut, traffic, disc>>

\* Mutant of CiStarted: the return after the success is missing, the loop
\* goes on to its next iteration
CiStartedGoesOn ==
    /\ chk.pc = "started"
    /\ \E n \in Notify("started") :
         chk' = [chk EXCEPT !.pc = "retry", !.call.exit = "started",
                            !.call.i = chk.call.i + 1,
                            !.call.notes = chk.call.notes \o n]
    /\ UNCHANGED <<poll, bot, lk, cbwp, gcp, reg, lastDelivered, cfg, instances, lastNotify, chinaShutdown, nonChinaShutdown,
                   now, cloud, refreshLog, shut, traffic, disc>>

\* ECSClient.GetInstance: an error, or the instance's record as it is now,
\* with its public address
GetInstance(id) ==
    {[err |-> TRUE, inst |-> NilInstance]} \cup
    (IF cloud[id] = Released THEN {}
     ELSE {[err |-> FALSE,
            inst |-> [InstanceID |-> id, RegionID |-> RegionOf(id),
                      PublicIPAddress |-> "assigned"]]})

\* The registry in which the record of the instance updated is replaced by
\* updated
Stored(updated) ==
    [k \in 1..Len(instances) |->
        IF instances[k].InstanceID = updated.InstanceID THEN updated
        ELSE instances[k]]

\* Mutant of CiStarted: the refreshed record is written through the pointer
\* the registry holds
CiStartedStoresRefresh ==
    /\ chk.pc = "started"
    /\ \E n \in Notify("started"), g \in GetInstance(Inst.InstanceID) :
         /\ chk' = [chk EXCEPT !.pc = "return", !.call.ret = "nil",
                               !.call.exit = "started",
                               !.call.inst = IF g.err THEN Inst ELSE g.inst,
                               !.call.notes = chk.call.notes \o n]
         /\ instances' = IF g.err THEN instances ELSE Stored(g.inst)
    /\ UNCHANGED <<poll, bot, lk, cbwp, gcp, reg, lastDelivered, cfg, lastNotify, chinaShutdown, nonChinaShutdown,
                   now, cloud, refreshLog, shut, traffic, disc>>

\* checkInstance: success; the refresh of the call's variable inst (a failed
\* refresh is logged), the "started" notification, return nil
CiStarted ==
    /\ chk.pc = "started"
    /\ \E n \in Notify("started"), g \in GetInstance(Inst.InstanceID) :
         chk' = [chk EXCEPT !.pc = "return", !.call.ret = "nil",
                            !.call.exit = "started",
                            !.call.inst = IF g.err THEN Inst ELSE g.inst,
                            !.call.notes = chk.call.notes \o n]
    /\ UNCHANGED <<poll, bot, lk, cbwp, gcp, reg, lastDelivered, cfg, instances, lastNotify, chinaShutdown, nonChinaShutdown,
                   now, cloud, refreshLog, shut, traffic, disc>>

\* checkInstance: all retries failed; the "start failed" notification,
\* return lastErr
CiFailed ==
    /\ chk.pc = "retry"
    /\ ~RetryLeft(chk.call.i)
    /\ \E n \in Notify("start failed") :
         chk' = [chk EXCEPT !.pc = "return", !.call.ret = chk.call.lastErr,
                            !.call.exit = "failed",
                            !.call.notes = chk.call.notes \o n]
    /\ UNCHANGED <<poll, bot, lk, cbwp, gcp, reg, lastDelivered, cfg, instances, lastNotify, chinaShutdown, nonChinaShutdown,
                   now, cloud, refreshLog, shut, traffic, disc>>

\* Mutant of CiReturn: an error of checkInstance is returned by Check
CiReturnAbortsOnError ==
    /\ chk.pc = "return"
    /\ IF chk.call.ret # "nil"
       THEN chk' = [chk EXCEPT !.pc = "idle", !.ret = chk.call.ret,
                               !.call = NoCall,
                               !.calls[chk.idx].failed = TRUE]
       ELSE chk' = [chk EXCEPT !.pc = "loop", !.idx = chk.idx + 1,
                               !.call = NoCall]
    /\ UNCHANGED <<poll, bot, lk, cbwp, gcp, reg, lastDelivered, cfg, instances, lastNotify, chinaShutdown, nonChinaShutdown,
                   now, cloud, refreshLog, shut, traffic, disc>>

\* Check: checkInstance has returned (an error is logged), next instance
CiReturn ==
    /\ chk.pc = "return"
    /\ chk' = [chk EXCEPT !.pc = "loop", !.idx = chk.idx + 1, !.call = NoCall,
                          !.calls[chk.idx].failed = (chk.call.ret # "nil")]
    /\ UNCHANGED <<poll, bot, lk, cbwp, gcp, reg, lastDelivered, cfg, instances, lastNotify, chinaShutdown, nonChinaShutdown,
                   now, cloud, refreshLog, shut, traffic, disc>>

CheckTask ==
    \/ CheckRefresh \/ CheckSnapshot \/ CheckDone
    \/ CiReadLatch \/ CiStatus \/ CiCooldown \/ CiUpdateNotifyTime
    \/ CiStart \/ CiPoll \/ CiTimeout \/ CiStarted \/ CiFailed \/ CiReturn


----------------------------------------------------------------------------
(* The traffic budget enforcer: Monitor.CheckTraffic *)

Groups == {"china", "non-china"}

\* The group of regions an instance belongs to
GroupOf(inst) ==
    IF IsChinaMainlandRegion(inst.RegionID) THEN "china" ELSE "non-china"

Latch(g) == IF g = "china" THEN chinaShutdown ELSE nonChinaShutdown

\* CheckTraffic: chinaTrafficGB >= m.cfg.TrafficLimitChinaGB
ChinaOverLimit(gb) == gb >= TrafficLimitChinaGB

\* Mutant of NonChinaOverLimit: compared with the other group's limit
NonChinaOverChinaLimit(gb) == gb >= TrafficLimitChinaGB

\* CheckTraffic: nonChinaTrafficGB >= m.cfg.TrafficLimitNonChinaGB
NonChinaOverLimit(gb) == gb >= TrafficLimitNonChinaGB

OverLimit(g, seen) ==
    IF g = "china" THEN ChinaOverLimit(seen.china)
    ELSE NonChinaOverLimit(seen.nonChina)

\* Mutant of Launches: the latch is not consulted
LaunchesWheneverOver(over, latch) == over

\* CheckTraffic: a group's shutdown is launched when its traffic is at or
\* over the limit and its latch is clear
Launches(over, latch) == over /\ ~latch

\* Mutant of NextLatch: the latch is never cleared
NextLatchSticky(over, latch) == over \/ latch

\* CheckTraffic: the latch after the call
NextLatch(over, latch) ==
    IF over THEN TRUE
    ELSE IF latch THEN FALSE
    ELSE latch

\* A new shutdownRegionInstances goroutine
NewShutdown(g) ==
    [region |-> g, pc |-> "snapshot", snap |-> <<>>, idx |-> 0,
     status |-> "none", stopped |-> <<>>, stops |-> {}, notes |-> <<>>]

\* The goroutines one CheckTraffic call starts
LaunchSet(seen) ==
    {g \in Groups : Launches(OverLimit(g, seen), Latch(g))}

NoSeen == [china |-> 0, nonChina |-> 0]

\* The traffic task at rest, before its first call. seen: what the last
\* successful query returned; launched: the groups whose bulk shutdown the
\* last call launched; streak[g]: bulk shutdowns launched for g during the
\* current run of calls that saw g at or over its limit; rearmed[g]: g's
\* latch has been cleared by a call
TrafficIdle ==
    [ret |-> "none", seen |-> NoSeen, launched |-> {}, notes |-> <<>>,
     streak |-> [g \in Groups |-> 0], rearmed |-> [g \in Groups |-> FALSE]]

\* TrafficClient.QueryInternetTraffic: the month's traffic of both groups
QueryInternetTraffic ==
    {[china |-> c, nonChina |-> n] : c \in 0..MaxTraffic, n \in 0..MaxTraffic}

\* CheckTraffic returns at once when traffic shutdown is disabled
TrafficDisabled ==
    /\ ~cfg.TrafficShutdownEnabled
    /\ traffic' = [traffic EXCEPT !.ret = "nil", !.launched = {}]
    /\ UNCHANGED <<poll, bot, lk, cbwp, gcp, reg, lastDelivered, cfg, instances, lastNotify, chinaShutdown, nonChinaShutdown,
                   now, cloud, chk, refreshLog, shut, disc>>

\* Mutant of TrafficQueryFails: a failed query is taken for no traffic
TrafficQueryFailsAsZero ==
    /\ cfg.TrafficShutdownEnabled
    /\ traffic' = [traffic EXCEPT !.ret = "query error", !.launched = {}]
    /\ chinaShutdown' = FALSE
    /\ nonChinaShutdown' = FALSE
    /\ UNCHANGED <<poll, bot, lk, cbwp, gcp, reg, lastDelivered, cfg, instances, lastNotify,
                   now, cloud, chk, refreshLog, shut, disc>>

\* CheckTraffic: the traffic query fails, the call returns the error and
\* leaves the latches alone
TrafficQueryFails ==
    /\ cfg.TrafficShutdownEnabled
    /\ traffic' = [traffic EXCEPT !.ret = "query error", !.launched = {}]
    /\ UNCHANGED <<poll, bot, lk, cbwp, gcp, reg, lastDelivered, cfg, instances, lastNotify, chinaShutdown, nonChinaShutdown,
                   now, cloud, chk, refreshLog, shut, disc>>

\* CheckTraffic, the query having returned seen: under trafficShutdownMu both
\* latches are brought up to date and the bulk shutdowns launched
CheckTraffic(seen) ==
    /\ cfg.TrafficShutdownEnabled
    /\ BagCardinality(shut) + Cardinality(LaunchSet(seen)) <= MaxShutdownTasks
    /\ chinaShutdown' = NextLatch(OverLimit("china", seen), chinaShutdown)
    /\ nonChinaShutdown' = NextLatch(OverLimit("non-china", seen), nonChinaShutdown)
    /\ shut' = shut (+) SetToBag({NewShutdown(g) : g \in LaunchSet(seen)})
    /\ LET launched == LaunchSet(seen)
       IN traffic' =
            [traffic EXCEPT
               !.ret = "nil", !.seen = seen, !.launched = launched,
               !.streak = [g \in Groups |->
                             IF OverLimit(g, seen)
                             THEN traffic.streak[g] + (IF g \in launched THEN 1 ELSE 0)
                             ELSE 0],
               !.rearmed = [g \in Groups |->
                              traffic.rearmed[g] \/ (Latch(g) /\ ~OverLimit(g, seen))]]
    /\ UNCHANGED <<poll, bot, lk, cbwp, gcp, reg, lastDelivered, cfg, instances, lastNotify, now, cloud, chk, refreshLog, disc>>

\* The traffic task: one CheckTraffic call after the other
TrafficTask ==
    \/ TrafficDisabled
    \/ TrafficQueryFails
    \/ \E seen \in QueryInternetTraffic : CheckTraffic(seen)

\* The traffic task within one billing month: the month's traffic only grows
TrafficTaskInMonth ==
    \/ TrafficDisabled
    \/ TrafficQueryFails
    \/ \E seen \in QueryInternetTraffic :
         /\ seen.china >= traffic.seen.china
         /\ seen.nonChina >= traffic.seen.nonChina
         /\ CheckTraffic(seen)

----------------------------------------------------------------------------
(* The bulk shutdown: Monitor.shutdownRegionInstances *)

\* The stop mode the bulk shutdown asks for
StoppedMode == "StopCharging"

\* shutdownRegionInstances: the instance is of the other group and skipped
OtherGroup(region, inst) ==
    \/ region = "china" /\ ~IsChinaMainlandRegion(inst.RegionID)
    \/ region = "non-china" /\ IsChinaMainlandRegion(inst.RegionID)

\* Mutant of NeedsStop: whatever is not stopped is stopped
NeedsStopUnlessStopped(status) == status # "Stopped"

\* shutdownRegionInstances: only a running instance is stopped
NeedsStop(status) == status = "Running"

\* Mutant of ShouldNotifyShutdown: the notification is sent in any case
ShouldNotifyShutdownAlways(stopped) == TRUE

\* shutdownRegionInstances: the notification is sent when something was stopped
ShouldNotifyShutdown(stopped) == Len(stopped) > 0

\* The bag of goroutines with t replaced by u
Step(t, u) == (shut (-) SetToBag({t})) (+) SetToBag({u})

\* shutdownRegionInstances: the copy of the registry taken under the read lock
SdSnapshot(t) ==
    /\ t.pc = "snapshot"
    /\ shut' = Step(t, [t EXCEPT !.pc = "loop", !.snap = instances, !.idx = 1])
    /\ UNCHANGED <<poll, bot, lk, cbwp, gcp, reg, lastDelivered, cfg, instances, lastNotify, chinaShutdown, nonChinaShutdown,
                   now, cloud, chk, refreshLog, traffic, disc>>

\* shutdownRegionInstances: the group filter and the status query of one instance
SdStatus(t) ==
    /\ t.pc = "loop"
    /\ t.idx <= Len(t.snap)
    /\ LET inst == t.snap[t.idx] IN
         IF OtherGroup(t.region, inst)
         THEN shut' = Step(t, [t EXCEPT !.idx = t.idx + 1])
         ELSE \E r \in GetInstanceStatus(inst.InstanceID) :
                IF ~r.err /\ NeedsStop(r.status)
                THEN shut' = Step(t, [t EXCEPT !.pc = "stop", !.status = r.status])
                ELSE shut' = Step(t, [t EXCEPT !.idx = t.idx + 1])
    /\ UNCHANGED <<poll, bot, lk, cbwp, gcp, reg, lastDelivered, cfg, instances, lastNotify, chinaShutdown, nonChinaShutdown,
                   now, cloud, chk, refreshLog, traffic, disc>>

\* shutdownRegionInstances: the stop command of one instance
SdStop(t) ==
    /\ t.pc = "stop"
    /\ LET inst == t.snap[t.idx] IN
         \E r \in StopInstance(inst.InstanceID) :
           /\ cloud' = [cloud EXCEPT ![inst.InstanceID] = r.status]
           /\ shut' = Step(t, [t EXCEPT
                 !.pc = "loop", !.idx = t.idx + 1, !.status = "none",
                 !.stops = t.stops \cup
                     {[InstanceID |-> inst.InstanceID, cmd |-> r.cmd,
                       mode |-> StoppedMode, seen |-> t.status, err |-> r.err,
                       conflict |-> r.conflict]},
                 !.stopped = IF r.err THEN t.stopped
                             ELSE Append(t.stopped, inst.InstanceID)])
    /\ UNCHANGED <<poll, bot, lk, cbwp, gcp, reg, lastDelivered, cfg, instances, lastNotify, chinaShutdown, nonChinaShutdown,
                   now, chk, refreshLog, traffic, disc>>

\* shutdownRegionInstances: the shutdown notification, after the loop
SdNotify(t) ==
    /\ t.pc = "loop"
    /\ t.idx > Len(t.snap)
    /\ IF ShouldNotifyShutdown(t.stopped)
       THEN \E n \in Notify("traffic shutdown") :
              shut' = Step(t, [t EXCEPT
                  !.pc = "done",
                  !.notes = [j \in 1..Len(n) |->
                               [kind |-> n[j].kind, delivered |-> n[j].delivered,
                                list |-> t.stopped]]])
       ELSE shut' = Step(t, [t EXCEPT !.pc = "done"])
    /\ UNCHANGED <<poll, bot, lk, cbwp, gcp, reg, lastDelivered, cfg, instances, lastNotify, chinaShutdown, nonChinaShutdown,
                   now, cloud, chk, refreshLog, traffic, disc>>

\* The goroutine ends
SdExit(t) ==
    /\ t.pc = "done"
    /\ shut' = shut (-) SetToBag({t})
    /\ UNCHANGED <<poll, bot, lk, cbwp, gcp, reg, lastDelivered, cfg, instances, lastNotify, chinaShutdown, nonChinaShutdown,
                   now, cloud, chk, refreshLog, traffic, disc>>

ShutdownTask ==
    \E t \in BagToSet(shut) :
        \/ SdSnapshot(t) \/ SdStatus(t) \/ SdStop(t) \/ SdNotify(t) \/ SdExit(t)

\* The status and the stop calls of the bulk shutdown succeed: the status
\* query of a running instance is followed by its stop command, and no stop
\* command returns an error
SdCallsSucceed ==
    /\ \A t \in BagToSet(shut) :
          ( /\ t.pc = "loop"
            /\ t.idx <= Len(t.snap)
            /\ ~OtherGroup(t.region, t.snap[t.idx])
            /\ cloud[t.snap[t.idx].InstanceID] = "Running" )
          => shut' # Step(t, [t EXCEPT !.idx = t.idx + 1])
    /\ \A u \in BagToSet(shut') : \A s \in u.stops : ~s.err

\* The bulk shutdowns whose calls to the provider succeed
ShutdownTaskSucceeding == ShutdownTask /\ SdCallsSucceed

----------------------------------------------------------------------------
(* The provider and the clock *)

\* The provider reclaims a running preemptible instance: it begins to stop
Reclaim(id) ==
    /\ cloud[id] = "Running"
    /\ cloud' = [cloud EXCEPT ![id] = "Stopping"]
    /\ UNCHANGED <<poll, bot, lk, cbwp, gcp, reg, lastDelivered, cfg, instances, lastNotify, chinaShutdown, nonChinaShutdown,
                   now, chk, refreshLog, shut, traffic, disc>>

\* A starting instance comes up, a stopping one comes to rest
Settle(id) ==
    /\ cloud[id] \in {"Starting", "Stopping"}
    /\ cloud' = [cloud EXCEPT ![id] = IF cloud[id] = "Starting" THEN "Running"
                                      ELSE "Stopped"]
    /\ UNCHANGED <<poll, bot, lk, cbwp, gcp, reg, lastDelivered, cfg, instances, lastNotify, chinaShutdown, nonChinaShutdown,
                   now, chk, refreshLog, shut, traffic, disc>>

\* Somebody else than the monitor starts a stopped instance
Resume(id) ==
    /\ cloud[id] = "Stopped"
    /\ cloud' = [cloud EXCEPT ![id] = "Starting"]
    /\ UNCHANGED <<poll, bot, lk, cbwp, gcp, reg, lastDelivered, cfg, instances, lastNotify, chinaShutdown, nonChinaShutdown,
                   now, chk, refreshLog, shut, traffic, disc>>

\* The instance is released: it no longer exists at the provider
Release(id) ==
    /\ cloud[id] # Released
    /\ cloud' = [cloud EXCEPT ![id] = Released]
    /\ UNCHANGED <<poll, bot, lk, cbwp, gcp, reg, lastDelivered, cfg, instances, lastNotify, chinaShutdown, nonChinaShutdown,
                   now, chk, refreshLog, shut, traffic, disc>>

Provider == \E id \in InstanceIDs : Reclaim(id) \/ Settle(id) \/ Resume(id)

Tick ==
    /\ now < MaxTime
    /\ now' = now + 1
    /\ UNCHANGED <<poll, bot, lk, cbwp, gcp, reg, lastDelivered, cfg, instances, lastNotify, chinaShutdown, nonChinaShutdown,
                   cloud, chk, refreshLog, shut, traffic, disc>>

----------------------------------------------------------------------------
(* The discovery scan: ECSClient.DiscoverAllSpotInstances, task by task *)

\* The locals of one DiscoverAllSpotInstances call. pc: "idle", "scanning"
\* (the per-region goroutines are running), "done"; task[r]: the goroutine
\* of region r is "queued" for the semaphore, "listing", about to "append",
\* or "done"; got[r]: what its listing returned; failed: the regions whose
\* listing failed; all: allInstances; err: the error returned
NoScan ==
    [pc |-> "idle", task |-> [r \in Regions |-> "queued"],
     got |-> [r \in Regions |-> <<>>], failed |-> {}, all |-> <<>>,
     err |-> FALSE]

\* ECSClient.GetSpotInstances: an error, or the spot instances of the region
GetSpotInstances(r) ==
    {[err |-> TRUE, list |-> <<>>]} \cup
    {[err |-> FALSE, list |-> [k \in 1..Len(s) |-> SpotInstance(s[k])]] :
        s \in AppendOrders(InRegion(r))}

\* The goroutines that hold a slot of the semaphore
Holding(scan) == {r \in Regions : scan.task[r] \in {"listing", "append"}}

\* Mutant of Appended: the append is made to a stale copy of the slice
AppendedToStale(all, got) == got

\* allInstances = append(allInstances, instances...), under mu
Appended(all, got) == all \o got

ScanStep(scan) ==
    /\ disc' = [disc EXCEPT !.scan = scan]
    /\ UNCHANGED <<poll, bot, lk, cbwp, gcp, reg, lastDelivered, cfg, instances, lastNotify, chinaShutdown,
                   nonChinaShutdown, now, cloud, chk, refreshLog, shut, traffic>>

\* GetAllRegions: an error ends the discovery; otherwise one goroutine a
\* region is started
ScanRegions ==
    /\ disc.scan.pc = "idle"
    /\ \/ ScanStep([NoScan EXCEPT !.pc = "done", !.err = TRUE])
       \/ ScanStep([NoScan EXCEPT !.pc = "scanning"])

\* Mutant of ScanAcquire: the goroutine does not wait for a slot
ScanAcquireAtOnce(r) ==
    /\ disc.scan.pc = "scanning"
    /\ disc.scan.task[r] = "queued"
    /\ ScanStep([disc.scan EXCEPT !.task[r] = "listing"])

\* semaphore <- struct{}{}
ScanAcquire(r) ==
    /\ disc.scan.pc = "scanning"
    /\ disc.scan.task[r] = "queued"
    /\ Cardinality(Holding(disc.scan)) < MaxConcurrentScans
    /\ ScanStep([disc.scan EXCEPT !.task[r] = "listing"])

\* The listing of region r: an error ends the goroutine, as does an empty
\* listing; the slot is released when the goroutine ends
ScanList(r) ==
    /\ disc.scan.pc = "scanning"
    /\ disc.scan.task[r] = "listing"
    /\ \E g \in GetSpotInstances(r) :
         IF g.err
         THEN ScanStep([disc.scan EXCEPT !.task[r] = "done",
                                         !.failed = disc.scan.failed \cup {r}])
         ELSE ScanStep([disc.scan EXCEPT
                          !.task[r] = IF Len(g.list) > 0 THEN "append" ELSE "done",
                          !.got[r] = g.list])

\* The goroutine of region r appends its instances and ends
ScanAppend(r) ==
    /\ disc.scan.pc = "scanning"
    /\ disc.scan.task[r] = "append"
    /\ ScanStep([disc.scan EXCEPT !.task[r] = "done",
                                  !.all = Appended(disc.scan.all, disc.scan.got[r])])

\* wg.Wait() returns: return allInstances, nil
ScanWait ==
    /\ disc.scan.pc = "scanning"
    /\ \A r \in Regions : disc.scan.task[r] = "done"
    /\ ScanStep([disc.scan EXCEPT !.pc = "done"])

\* The caller takes the result; the next discovery can start
ScanReturn ==
    /\ disc.scan.pc = "done"
    /\ ScanStep(NoScan)

ScanTask ==
    \/ ScanRegions
    \/ \E r \in Regions : ScanAcquire(r) \/ ScanList(r) \/ ScanAppend(r)
    \/ ScanWait
    \/ ScanReturn

----------------------------------------------------------------------------
(* The listing of one region, page by page: ECSClient.GetSpotInstances *)

\* The instances of a region that holds more of them than a page does
PagedIDs == {"i-101", "i-102", "i-103"}

PagedRegion == "cn-shanghai"

\* The locals of one GetSpotInstances call and the provider's side of it.
\* pc: "idle", "request" (about to ask for page pageNumber), "done";
\* instances: the instances collected; err: the call returned an error;
\* order: the instances of the region in the order the provider lists them
\* now; launches: the instances launched since the model started
NoPage == [pc |-> "idle", pageNumber |-> 0, instances |-> <<>>, err |-> FALSE,
           order |-> <<>>, launches |-> 0]

\* DescribeInstances: page pageNumber of the provider's list as it is now
PageOf(order, pageNumber) ==
    SubSeq(order, (pageNumber - 1) * PageSize + 1,
           IF pageNumber * PageSize < Len(order) THEN pageNumber * PageSize
           ELSE Len(order))

PageStep(page) ==
    /\ disc' = [disc EXCEPT !.page = page]
    /\ UNCHANGED <<poll, bot, lk, cbwp, gcp, reg, lastDelivered, cfg, instances, lastNotify,
                   chinaShutdown, nonChinaShutdown, now, cloud, chk, refreshLog,
                   shut, traffic>>

\* GetSpotInstances is called: pageNumber := 1
PageBegin ==
    /\ disc.page.pc = "idle"
    /\ PageStep([disc.page EXCEPT !.pc = "request", !.pageNumber = 1,
                                  !.instances = <<>>, !.err = FALSE])

\* One DescribeInstances request: an error ends the call; otherwise the
\* instances of the page are appended, and a page that is not full is the
\* last one
PageRequest ==
    /\ disc.page.pc = "request"
    /\ \/ PageStep([disc.page EXCEPT !.pc = "done", !.err = TRUE, !.instances = <<>>])
       \/ LET got == PageOf(disc.page.order, disc.page.pageNumber)
              all == disc.page.instances
                       \o [k \in 1..Len(got) |->
                             [InstanceID |-> got[k], RegionID |-> PagedRegion]]
          IN IF Len(got) < PageSize
             THEN PageStep([disc.page EXCEPT !.pc = "done", !.instances = all])
             ELSE PageStep([disc.page EXCEPT !.pageNumber = disc.page.pageNumber + 1,
                                             !.instances = all])

\* The listing has returned to its goroutine of DiscoverAllSpotInstances,
\* the only one that found instances; the discovery returns them and
\* refreshInstances (or DiscoverInstances) puts them into the registry. A
\* failed listing leaves the discovery's result empty
PageReturn ==
    /\ disc.page.pc = "done"
    /\ instances' = Appended(<<>>, disc.page.instances)
    /\ disc' = [disc EXCEPT !.page = [disc.page EXCEPT !.pc = "idle"]]
    /\ UNCHANGED <<poll, bot, lk, cbwp, gcp, reg, lastDelivered, cfg, lastNotify,
                   chinaShutdown, nonChinaShutdown, now, cloud, chk, refreshLog,
                   shut, traffic>>

\* Somebody launches an instance in the region: the provider lists the
\* newest instance first
PageLaunch(id) ==
    /\ disc.page.launches < MaxLaunches
    /\ id \notin Range(disc.page.order)
    /\ PageStep([disc.page EXCEPT !.order = <<id>> \o disc.page.order,
                                  !.launches = disc.page.launches + 1])

\* An instance of the region is released
PageRelease(id) ==
    /\ id \in Range(disc.page.order)
    /\ PageStep([disc.page EXCEPT
                   !.order = SelectSeq(disc.page.order, LAMBDA x : x # id)])

PageTask ==
    \/ PageBegin \/ PageRequest \/ PageReturn
    \/ \E id \in PagedIDs : PageLaunch(id) \/ PageRelease(id)

----------------------------------------------------------------------------
(* The startup discovery: Monitor.DiscoverInstances *)

\* ret, notes: the result and the notifications of the last
\* DiscoverInstances call; calls: the DiscoverInstances calls since the
\* process started; sentBy: those of them that sent the "monitor started"
\* notification; scan: the discovery scan in progress; page: the paged
\* listing of a region in progress
DiscIdle == [ret |-> "none", notes |-> <<>>, calls |-> 0, sentBy |-> {},
             scan |-> NoScan, page |-> NoPage]

\* DiscoverInstances: the "monitor started" notification is sent when
\* something was discovered
ShouldNotifyStarted(list) == Len(list) > 0

\* DiscoverInstances: on an error the registry is kept and the error
\* returned; otherwise the registry is replaced and the notification sent
DiscoverInstances ==
    /\ disc.calls < MaxDiscoveries
    /\ LET call == disc.calls + 1 IN
       \E d \in DiscoverAllSpotInstances :
         IF d.err
         THEN /\ instances' = instances
              /\ disc' = [disc EXCEPT !.ret = "discover error", !.notes = <<>>,
                                      !.calls = call]
         ELSE /\ instances' = d.list
              /\ IF ShouldNotifyStarted(d.list)
                 THEN \E n \in Notify("monitor started") :
                        disc' = [disc EXCEPT
                                   !.ret = "nil", !.notes = n, !.calls = call,
                                   !.sentBy = IF n = <<>> THEN disc.sentBy
                                              ELSE disc.sentBy \cup {call}]
                 ELSE disc' = [disc EXCEPT !.ret = "nil", !.notes = <<>>,
                                           !.calls = call]
    /\ UNCHANGED <<poll, bot, lk, cbwp, gcp, reg, lastDelivered, cfg, lastNotify, chinaShutdown, nonChinaShutdown, now, cloud,
                   chk, refreshLog, shut, traffic>>

----------------------------------------------------------------------------
(* The GCP credits check: Monitor.CheckGCPCredits *)

\* billing: m.gcpBilling is not nil; ret, pct, notes: the result of the last
\* CheckGCPCredits call, the remaining percentage it saw and the
\* notifications it sent; at: when it ran; gate: what canNotify answered
\* ("none" when it was not asked)
GcpIdle == [billing |-> FALSE, ret |-> "none", pct |-> 0, notes |-> <<>>,
            at |-> 0, gate |-> "none"]

\* BillingClient.QueryCostSummary: an error, or the remaining percentage
QueryCostSummary ==
    {[err |-> TRUE, RemainingPct |-> 0]}
      \cup {[err |-> FALSE, RemainingPct |-> p] : p \in 0..MaxPct}

\* CheckGCPCredits: the alert is due
CreditsLow(summary) ==
    summary.RemainingPct <= cfg.GCPCreditsAlertPercent /\ cfg.TelegramEnabled

\* Mutant of CreditsRet: the error of the delivery is only logged
CreditsRetLogsOnly(n) == "nil"

\* CheckGCPCredits: what the call returns after the sends n
CreditsRet(n) ==
    IF \E j \in 1..Len(n) : ~n[j].delivered THEN "notify error" ELSE "nil"

\* CheckGCPCredits
CheckGCPCredits ==
    /\ IF ~gcp.billing
       THEN /\ gcp' = [gcp EXCEPT !.ret = "nil", !.notes = <<>>, !.at = now,
                                  !.gate = "none"]
            /\ UNCHANGED <<lastNotify, lastDelivered>>
       ELSE \E summary \in QueryCostSummary :
              IF summary.err
              THEN /\ gcp' = [gcp EXCEPT !.ret = "query error", !.notes = <<>>,
                                         !.at = now, !.gate = "none"]
                   /\ UNCHANGED <<lastNotify, lastDelivered>>
              ELSE IF CreditsLow(summary) /\ canNotify("gcp-credits")
              THEN \E n \in Notify("credits low") :
                     /\ gcp' = [gcp EXCEPT !.ret = CreditsRet(n), !.notes = n,
                                           !.pct = summary.RemainingPct,
                                           !.at = now, !.gate = "open"]
                     /\ lastNotify' = IF CreditsRet(n) = "nil"
                                      THEN updateNotifyTime("gcp-credits")
                                      ELSE lastNotify
                     /\ lastDelivered' = Delivered("gcp-credits", n)
              ELSE /\ gcp' = [gcp EXCEPT
                                !.ret = "nil", !.notes = <<>>,
                                !.pct = summary.RemainingPct, !.at = now,
                                !.gate = IF CreditsLow(summary) THEN "closed"
                                         ELSE "none"]
                   /\ UNCHANGED <<lastNotify, lastDelivered>>
    /\ UNCHANGED <<poll, bot, lk, cbwp, reg, cfg, instances, chinaShutdown, nonChinaShutdown, now, cloud,
                   chk, refreshLog, shut, traffic, disc>>

----------------------------------------------------------------------------
(* The bandwidth package callbacks: Monitor.handleCBWPBind *)

\* The EIPs and the bandwidth packages (pools) of the provider
EIPs == {"eip-1", "eip-2"}

PoolIDs == {"cbwp-1", "cbwp-2"}

\* EIPInfo.BandwidthPackageID of an EIP that is in no bandwidth package
NoPool == ""

\* aliyun.EIPInfo
EIPInfo(a, i, p) == [AllocationID |-> a, InstanceID |-> i, BandwidthPackageID |-> p]

\* What the provider can hold: every EIP associated with an instance, in a
\* pool or in none, in the order the provider lists them
EIPStates ==
    {[k \in 1..Len(s) |-> EIPInfo(s[k], i[s[k]], p[s[k]])] :
        s \in InjectiveSeqs(EIPs) \ {<<>>},
        i \in [EIPs -> InstanceIDs], p \in [EIPs -> PoolIDs \cup {NoPool}]}

\* The callback handled last. handler, instanceID, bwpID: the handler and
\* its arguments; found: the instance was in the registry; queried, queryErr:
\* the EIP query was made, and failed; attaches, detaches: the
\* AddCommonBandwidthPackageIp and RemoveCommonBandwidthPackageIp calls of
\* the handler; msg, keyboard: the message and the buttons the handler put
\* on the screen
NoCallback == [handler |-> "none", instanceID |-> "", bwpID |-> "", found |-> FALSE,
               queried |-> FALSE, queryErr |-> FALSE, attaches |-> <<>>,
               detaches |-> <<>>, msg |-> "none", keyboard |-> <<>>]

\* eips: the provider's EIPs; n: the callbacks handled; call: the last one
CbwpIdle == [eips |-> <<>>, n |-> 0, call |-> NoCallback]

\* handleCBWPBind: the registry lookup, nil when the instance is not there
FindInstance(instanceID) ==
    IF \E k \in 1..Len(instances) : instances[k].InstanceID = instanceID
    THEN instances[CHOOSE k \in 1..Len(instances) :
                     /\ instances[k].InstanceID = instanceID
                     /\ \A j \in 1..(k - 1) : instances[j].InstanceID # instanceID]
    ELSE NilInstance

\* CBWPClient.DescribeEipAddresses: an error, or the EIPs associated with
\* the instance, in the provider's order
DescribeEipAddresses(regionID, instanceID) ==
    {[err |-> TRUE, eips |-> <<>>],
     [err |-> FALSE,
      eips |-> SelectSeq(cbwp.eips, LAMBDA e : /\ e.InstanceID = instanceID
                                              /\ RegionOf(e.InstanceID) = regionID)]}

\* Mutant of TargetEIP: the last EIP that is in no pool
TargetEIPLast(eips) ==
    LET free == {k \in 1..Len(eips) : eips[k].BandwidthPackageID = NoPool}
    IN IF free = {} THEN 0 ELSE CHOOSE k \in free : \A j \in free : j <= k

\* handleCBWPBind: the position of the first EIP that is in no pool, 0 when
\* there is none
TargetEIP(eips) ==
    LET free == {k \in 1..Len(eips) : eips[k].BandwidthPackageID = NoPool}
    IN IF free = {} THEN 0 ELSE CHOOSE k \in free : \A j \in free : k <= j

\* CBWPClient.AddCommonBandwidthPackageIp: the provider refuses, or puts the
\* EIP into the pool
AddCommonBandwidthPackageIp(regionID, bandwidthPackageID, eipID) ==
    {[err |-> TRUE, eips |-> cbwp.eips],
     [err |-> FALSE,
      eips |-> [k \in 1..Len(cbwp.eips) |->
                  IF cbwp.eips[k].AllocationID = eipID
                  THEN [cbwp.eips[k] EXCEPT !.BandwidthPackageID = bandwidthPackageID]
                  ELSE cbwp.eips[k]]]}

\* CBWPClient.RemoveCommonBandwidthPackageIp: the provider refuses, or takes
\* the EIP out of its pool
RemoveCommonBandwidthPackageIp(regionID, bandwidthPackageID, eipID) ==
    {[err |-> TRUE, eips |-> cbwp.eips],
     [err |-> FALSE,
      eips |-> [k \in 1..Len(cbwp.eips) |->
                  IF cbwp.eips[k].AllocationID = eipID
                  THEN [cbwp.eips[k] EXCEPT !.BandwidthPackageID = NoPool]
                  ELSE cbwp.eips[k]]]}

\* CBWPClient.DescribeCommonBandwidthPackages: an error, or the pools of the
\* region in the provider's order
DescribeCommonBandwidthPackages(regionID) ==
    {[err |-> TRUE, list |-> <<>>]}
      \cup {[err |-> FALSE, list |-> s] : s \in InjectiveSeqs(PoolIDs)}

\* A handler of the bandwidth package menu ends: botHandler.EditMessageText
\* puts call.msg and call.keyboard on the screen, and its result is the
\* handler's: nil, or the error of the edit; eips is what the provider holds
\* now
CbwpEnd(b, handler, call, eips) ==
    /\ \E ok \in BOOLEAN :
         bot' = [b EXCEPT !.handler = handler,
                          !.ret = IF ok THEN "nil" ELSE "edit error",
                          !.sent = <<[kind |-> "edit", delivered |-> ok,
                                      body |-> call.msg]>>]
    /\ cbwp' = [eips |-> eips, n |-> cbwp.n + 1, call |-> call]
    /\ UNCHANGED <<poll, lk, gcp, reg, lastDelivered, cfg, instances, lastNotify,
                   chinaShutdown, nonChinaShutdown, now, cloud, chk, refreshLog,
                   shut, traffic, disc>>

\* handleCBWPBind
handleCBWPBind(b, instanceID, bwpID) ==
    LET inst == FindInstance(instanceID)
        call == [NoCallback EXCEPT !.handler = "bind", !.instanceID = instanceID,
                                   !.bwpID = bwpID]
    IN IF inst = NilInstance
       THEN CbwpEnd(b, "handleCBWPBind", [call EXCEPT !.msg = "instance not found"],
                    cbwp.eips)
       ELSE \E q \in DescribeEipAddresses(inst.RegionID, instanceID) :
              LET asked == [call EXCEPT !.found = TRUE, !.queried = TRUE,
                                        !.queryErr = q.err]
                  target == TargetEIP(q.eips)
              IN IF q.err \/ Len(q.eips) = 0
                 THEN CbwpEnd(b, "handleCBWPBind",
                              [asked EXCEPT !.msg = "eip query failed"], cbwp.eips)
                 ELSE IF target = 0
                 THEN CbwpEnd(b, "handleCBWPBind",
                              [asked EXCEPT !.msg = "no free eip"], cbwp.eips)
                 ELSE \E r \in AddCommonBandwidthPackageIp(
                                 inst.RegionID, bwpID, q.eips[target].AllocationID) :
                        CbwpEnd(b, "handleCBWPBind",
                                [asked EXCEPT
                                   !.attaches = <<[regionID |-> inst.RegionID,
                                                   bandwidthPackageID |-> bwpID,
                                                   eipID |-> q.eips[target].AllocationID]>>,
                                   !.msg = IF r.err THEN "bind failed" ELSE "bound"],
                                r.eips)

\* handleCBWPUnbind: the position of the first EIP that is in the pool, 0
\* when there is none
UnbindTarget(eips, bwpID) ==
    LET in == {k \in 1..Len(eips) : eips[k].BandwidthPackageID = bwpID}
    IN IF in = {} THEN 0 ELSE CHOOSE k \in in : \A j \in in : k <= j

\* handleCBWPUnbind
handleCBWPUnbind(b, instanceID, bwpID) ==
    LET inst == FindInstance(instanceID)
        call == [NoCallback EXCEPT !.handler = "unbind", !.instanceID = instanceID,
                                   !.bwpID = bwpID]
    IN IF inst = NilInstance
       THEN CbwpEnd(b, "handleCBWPUnbind",
                    [call EXCEPT !.msg = "instance not found"], cbwp.eips)
       ELSE \E q \in DescribeEipAddresses(inst.RegionID, instanceID) :
              LET asked == [call EXCEPT !.found = TRUE, !.queried = TRUE,
                                        !.queryErr = q.err]
                  target == UnbindTarget(q.eips, bwpID)
              IN IF q.err \/ Len(q.eips) = 0
                 THEN CbwpEnd(b, "handleCBWPUnbind",
                              [asked EXCEPT !.msg = "eip query failed"], cbwp.eips)
                 ELSE IF target = 0
                 THEN CbwpEnd(b, "handleCBWPUnbind",
                              [asked EXCEPT !.msg = "no eip in the pool"], cbwp.eips)
                 ELSE \E r \in RemoveCommonBandwidthPackageIp(
                                 inst.RegionID, bwpID, q.eips[target].AllocationID) :
                        CbwpEnd(b, "handleCBWPUnbind",
                                [asked EXCEPT
                                   !.detaches = <<[regionID |-> inst.RegionID,
                                                   bandwidthPackageID |-> bwpID,
                                                   eipID |-> q.eips[target].AllocationID]>>,
                                   !.msg = IF r.err THEN "unbind failed" ELSE "unbound"],
                                r.eips)

\* A button of the keyboard: the EIP it is shown under ("" for the buttons
\* of the instance list) and the parts of its callback data
Button(under, parts) == [under |-> under, parts |-> parts]

\* handleCBWPSelectInstance: the buttons shown under one EIP: "unbind" from
\* its pool when it is in one, otherwise one "bind" a pool of the region
ButtonsOf(instanceID, eip, bwps) ==
    IF eip.BandwidthPackageID # NoPool
    THEN <<Button(eip.AllocationID,
                  <<"cbwp", "unbind", instanceID, eip.BandwidthPackageID>>)>>
    ELSE [k \in 1..Len(bwps) |->
            Button(eip.AllocationID, <<"cbwp", "bind", instanceID, bwps[k]>>)]

\* handleCBWPSelectInstance: the keyboard, EIP after EIP
RECURSIVE Keyboard(_, _, _)
Keyboard(instanceID, eips, bwps) ==
    IF eips = <<>> THEN <<>>
    ELSE ButtonsOf(instanceID, Head(eips), bwps)
           \o Keyboard(instanceID, Tail(eips), bwps)

\* handleCBWPSelectInstance
handleCBWPSelectInstance(b, instanceID) ==
    LET inst == FindInstance(instanceID)
        call == [NoCallback EXCEPT !.handler = "select", !.instanceID = instanceID]
    IN IF inst = NilInstance
       THEN CbwpEnd(b, "handleCBWPSelectInstance",
                    [call EXCEPT !.msg = "instance not found"], cbwp.eips)
       ELSE \E q \in DescribeEipAddresses(inst.RegionID, instanceID) :
              LET asked == [call EXCEPT !.found = TRUE, !.queried = TRUE,
                                        !.queryErr = q.err]
              IN IF q.err
                 THEN CbwpEnd(b, "handleCBWPSelectInstance",
                              [asked EXCEPT !.msg = "eip query failed"], cbwp.eips)
                 ELSE IF Len(q.eips) = 0
                 THEN CbwpEnd(b, "handleCBWPSelectInstance",
                              [asked EXCEPT !.msg = "no eip"], cbwp.eips)
                 ELSE \E p \in DescribeCommonBandwidthPackages(inst.RegionID) :
                        IF p.err
                        THEN CbwpEnd(b, "handleCBWPSelectInstance",
                                     [asked EXCEPT !.msg = "pool query failed"],
                                     cbwp.eips)
                        ELSE IF Len(p.list) = 0
                        THEN CbwpEnd(b, "handleCBWPSelectInstance",
                                     [asked EXCEPT !.msg = "no pool"], cbwp.eips)
                        ELSE CbwpEnd(b, "handleCBWPSelectInstance",
                                     [asked EXCEPT
                                        !.msg = "menu",
                                        !.keyboard = Keyboard(instanceID, q.eips, p.list)],
                                     cbwp.eips)

\* handleCBWPBackToList: the instance list again, one "select" button an
\* instance
handleCBWPBackToList(b) ==
    CbwpEnd(b, "handleCBWPBackToList",
            [NoCallback EXCEPT
               !.handler = "back",
               !.msg = IF Len(instances) = 0 THEN "no instances" ELSE "list",
               !.keyboard = [k \in 1..Len(instances) |->
                               Button("", <<"cbwp", "select",
                                            instances[k].InstanceID>>)]],
            cbwp.eips)

----------------------------------------------------------------------------
(* The bot commands: Monitor.handleBotCommand and the reports *)

\* n: the commands and callbacks handed to the monitor so far; kind,
\* command, data: the last one; handler: the handler that took it; ret: what
\* was returned to the bot; sent: the messages the handler sent; asked: the
\* collaborators it queried
BotIdle == [n |-> 0, kind |-> "none", command |-> "", data |-> <<>>,
            handler |-> "none", ret |-> "none", sent |-> <<>>, asked |-> {}]

\* The command names the bot can hand over: the known ones, their aliases
\* and names no case of the switch matches
Commands ==
    {"billing", "cost", "fee", "traffic", "flow", "bandwidth", "status", "cbwp",
     "gcpcredits", "credits", "gcp", "help", "start", "STATUS", ""}

\* A handler ends: what it returns and what it has sent and asked; nothing
\* of the monitor changes
BotEnd(b, handler, ret, sent, asked) ==
    /\ bot' = [b EXCEPT !.handler = handler, !.ret = ret, !.sent = sent,
                        !.asked = asked]
    /\ UNCHANGED <<poll, lk, cbwp, gcp, reg, lastDelivered, cfg, instances, lastNotify,
                   chinaShutdown, nonChinaShutdown, now, cloud, chk, refreshLog,
                   shut, traffic, disc>>

\* A report is sent: nil when it was delivered, the notifier's error
\* otherwise
BotSend(b, handler, kind, body, asked) ==
    \E n \in Notify(kind) :
      BotEnd(b, handler,
             IF \E j \in 1..Len(n) : ~n[j].delivered THEN "send error" ELSE "nil",
             [j \in 1..Len(n) |-> [kind |-> n[j].kind, delivered |-> n[j].delivered,
                                   body |-> body]],
             asked)

\* The status lines of a report: the status of every instance of the copy,
\* "Unknown" when the query fails
StatusLines(copy) ==
    LET shown(id) == {IF r.err THEN "Unknown" ELSE r.status :
                        r \in GetInstanceStatus(id)}
    IN {[k \in 1..Len(copy) |->
           [InstanceID |-> copy[k].InstanceID, status |-> f[k]]] :
          f \in {g \in [1..Len(copy) -> Statuses \cup {Released, "Unknown"}] :
                   \A k \in 1..Len(copy) : g[k] \in shown(copy[k].InstanceID)}}

\* Mutant of sendStatusReport: the report records an alert time for every
\* instance it lists
sendStatusReportTouching(b) ==
    /\ bot' = [b EXCEPT !.handler = "sendStatusReport", !.ret = "nil"]
    /\ lastNotify' = [k \in Keys |->
                        IF k \in IDsOf(instances) THEN now ELSE lastNotify[k]]
    /\ UNCHANGED <<poll, lk, cbwp, gcp, reg, lastDelivered, cfg, instances,
                   chinaShutdown, nonChinaShutdown, now, cloud, chk, refreshLog,
                   shut, traffic, disc>>

\* Monitor.sendStatusReport
sendStatusReport(b) ==
    IF ~cfg.TelegramEnabled
    THEN BotEnd(b, "sendStatusReport", "notifier not initialized", <<>>, {})
    ELSE IF Len(instances) = 0
    THEN BotSend(b, "sendStatusReport", "status", <<>>, {})
    ELSE \E lines \in StatusLines(instances) :
           BotSend(b, "sendStatusReport", "status", lines, {"GetInstanceStatus"})

\* Monitor.sendHelpMessage
sendHelpMessage(b) ==
    IF ~cfg.TelegramEnabled
    THEN BotEnd(b, "sendHelpMessage", "notifier not initialized", <<>>, {})
    ELSE BotSend(b, "sendHelpMessage", "help", <<>>, {})

\* Monitor.SendBillingReport; the billing client is there unless its
\* creation failed
SendBillingReport(b) ==
    \/ BotEnd(b, "SendBillingReport", "billing client not initialized", <<>>, {})
    \/ IF ~cfg.TelegramEnabled
       THEN BotEnd(b, "SendBillingReport", "notifier not initialized", <<>>, {})
       ELSE IF Len(instances) = 0
       THEN BotEnd(b, "SendBillingReport", "nil", <<>>, {})
       ELSE \/ BotEnd(b, "SendBillingReport", "query error", <<>>, {"QueryBilling"})
            \/ BotSend(b, "SendBillingReport", "billing", IDsOf(instances),
                       {"QueryBilling"})

\* Monitor.SendTrafficReport; the traffic client is there unless its
\* creation failed. With the traffic shutdown enabled the report shows the
\* two latches
SendTrafficReport(b) ==
    \/ BotEnd(b, "SendTrafficReport", "traffic client not initialized", <<>>, {})
    \/ IF ~cfg.TelegramEnabled
       THEN BotEnd(b, "SendTrafficReport", "notifier not initialized", <<>>, {})
       ELSE \/ BotEnd(b, "SendTrafficReport", "query error", <<>>,
                      {"QueryInternetTraffic"})
            \/ \E seen \in QueryInternetTraffic :
                 BotSend(b, "SendTrafficReport", "traffic",
                         IF cfg.TrafficShutdownEnabled
                         THEN [seen |-> seen, china |-> chinaShutdown,
                               nonChina |-> nonChinaShutdown]
                         ELSE [seen |-> seen],
                         {"QueryInternetTraffic"})

\* Monitor.SendGCPCreditsReport
SendGCPCreditsReport(b) ==
    IF ~gcp.billing
    THEN BotEnd(b, "SendGCPCreditsReport", "GCP billing client not initialized",
                <<>>, {})
    ELSE IF ~cfg.TelegramEnabled
    THEN BotEnd(b, "SendGCPCreditsReport", "notifier not initialized", <<>>, {})
    ELSE \E summary \in QueryCostSummary :
           IF summary.err
           THEN BotEnd(b, "SendGCPCreditsReport", "query error", <<>>,
                       {"QueryCostSummary"})
           ELSE BotSend(b, "SendGCPCreditsReport", "credits",
                        summary.RemainingPct, {"QueryCostSummary"})

\* Monitor.sendCBWPInstanceList: one "select" button an instance
sendCBWPInstanceList(b) ==
    IF ~cfg.TelegramEnabled
    THEN BotEnd(b, "sendCBWPInstanceList", "bot handler not initialized", <<>>, {})
    ELSE IF Len(instances) = 0
    THEN BotSend(b, "sendCBWPInstanceList", "cbwp", <<>>, {})
    ELSE BotSend(b, "sendCBWPInstanceList", "cbwp",
                 [k \in 1..Len(instances) |->
                    <<"cbwp", "select", instances[k].InstanceID>>], {})

\* Monitor.handleBotCommand
handleBotCommand(command) ==
    /\ cfg.TelegramEnabled
    /\ bot.n < MaxCommands
    /\ LET b == [BotIdle EXCEPT !.n = bot.n + 1, !.kind = "command",
                                !.command = command]
       IN CASE command \in {"billing", "cost", "fee"} -> SendBillingReport(b)
            [] command \in {"traffic", "flow", "bandwidth"} -> SendTrafficReport(b)
            [] command = "status" -> sendStatusReport(b)
            [] command = "cbwp" -> sendCBWPInstanceList(b)
            [] command \in {"gcpcredits", "credits", "gcp"} -> SendGCPCreditsReport(b)
            [] command = "help" -> sendHelpMessage(b)
            [] OTHER -> BotEnd(b, "none", "nil", <<>>, {})

\* The commands the bot hands to the monitor
CommandTask == \E command \in Commands : handleBotCommand(command)

----------------------------------------------------------------------------
(* The callbacks of the bot: Monitor.handleCallbackQuery *)

\* The callback data is a string; here, a sequence of words and colons, no
\* two words in a row. Join(parts) is the data whose parts between the
\* colons are parts ("" is the empty part)
RECURSIVE Join(_)
Join(parts) ==
    IF parts = <<>> THEN <<>>
    ELSE LET word == IF Head(parts) = "" THEN <<>> ELSE <<Head(parts)>>
         IN IF Len(parts) = 1 THEN word
            ELSE word \o <<":">> \o Join(Tail(parts))

\* strings.Split(data, ":"): the parts between the colons; a colon ends a
\* part and begins the next, so n colons give n + 1 parts
RECURSIVE Split(_)
Split(data) ==
    IF data = <<>> THEN <<"">>
    ELSE IF Head(data) = ":" THEN <<"">> \o Split(Tail(data))
    ELSE IF Len(data) = 1 THEN <<Head(data)>>
    ELSE <<Head(data)>> \o Tail(Split(Tail(data)))

\* The callback data the bot can hand over: the buttons of the menus, and
\* data with another prefix, an unknown action, parts missing, a part too
\* many or nothing at all
CallbackParts ==
    LET p1 == {"cbwp", "ecs", ""}
        p2 == {"select", "bind", "unbind", "back", "drop"}
        p3 == {"i-001", "i-003"}
        p4 == {"cbwp-1"}
        p5 == {"x"}
    IN {<<>>} \cup {<<a>> : a \in p1} \cup {<<a, c>> : a \in p1, c \in p2}
         \cup {<<a, c, d>> : a \in p1, c \in p2, d \in p3}
         \cup {<<a, c, d, e>> : a \in p1, c \in p2, d \in p3, e \in p4}
         \cup {<<a, c, d, e, f>> : a \in {"cbwp"}, c \in p2, d \in p3, e \in p4, f \in p5}

CallbackData == {Join(parts) : parts \in CallbackParts}

\* Mutant of TooFew: a callback with an action is let through to the
\* handler, the missing parts empty
TooFewLenient(parts, n) == Len(parts) < 2

\* handleCallbackQuery: len(parts) < n
TooFew(parts, n) == Len(parts) < n

\* parts[k] of a callback let through, "" when the part is missing
Part(parts, k) == IF k <= Len(parts) THEN parts[k] ELSE ""

\* Monitor.handleCallbackQuery
handleCallbackQuery(data) ==
    /\ cfg.TelegramEnabled
    /\ bot.n < MaxCommands
    /\ cbwp.n < MaxCallbacks
    /\ LET parts == Split(data)
           b == [BotIdle EXCEPT !.n = bot.n + 1, !.kind = "callback", !.data = data]
           NoOp == BotEnd(b, "none", "nil", <<>>, {})
       IN IF TooFew(parts, 2) \/ Part(parts, 1) # "cbwp"
          THEN NoOp
          ELSE CASE parts[2] = "select" ->
                      IF TooFew(parts, 3) THEN NoOp
                      ELSE handleCBWPSelectInstance(b, Part(parts, 3))
                 [] parts[2] = "bind" ->
                      IF TooFew(parts, 4) THEN NoOp
                      ELSE handleCBWPBind(b, Part(parts, 3), Part(parts, 4))
                 [] parts[2] = "unbind" ->
                      IF TooFew(parts, 4) THEN NoOp
                      ELSE handleCBWPUnbind(b, Part(parts, 3), Part(parts, 4))
                 [] parts[2] = "back" -> handleCBWPBackToList(b)
                 [] OTHER -> NoOp

\* The callback data of the buttons of the menus
MenuData ==
    {Join(<<"cbwp", "back">>)}
      \cup {Join(<<"cbwp", "select", i>>) : i \in {"i-001", "i-003"}}
      \cup {Join(<<"cbwp", a, i, p>>) :
              a \in {"bind", "unbind"}, i \in {"i-001", "i-003"}, p \in PoolIDs}

\* The bot hands the buttons pressed to the monitor
CallbackTask == \E data \in MenuData : handleCallbackQuery(data)

\* The bot hands over whatever callback data it received
AnyCallbackTask == \E data \in CallbackData : handleCallbackQuery(data)

----------------------------------------------------------------------------
(* The polling loop of the bot: BotHandler.PollUpdates *)

\* A chat id of the configuration is a string, here the sequence of its
\* characters; the chat id of an update is a number
DigitValue ==
    ("0" :> 0) @@ ("1" :> 1) @@ ("2" :> 2) @@ ("3" :> 3) @@ ("4" :> 4) @@
    ("5" :> 5) @@ ("6" :> 6) @@ ("7" :> 7) @@ ("8" :> 8) @@ ("9" :> 9)

\* The value of a sequence of digits, most significant first
RECURSIVE ParseDigits(_)
ParseDigits(s) ==
    IF s = <<>> THEN 0
    ELSE 10 * ParseDigits(SubSeq(s, 1, Len(s) - 1)) + DigitValue[s[Len(s)]]

\* strconv.ParseInt(s, 10, 64): an optional sign and at least one digit;
\* anything else is an error, and the value is then 0
ParseInt(s) ==
    LET signed == s # <<>> /\ Head(s) \in {"+", "-"}
        digits == IF signed THEN Tail(s) ELSE s
    IN IF digits = <<>> \/ \E k \in 1..Len(digits) : digits[k] \notin DOMAIN DigitValue
       THEN [value |-> 0, err |-> "invalid syntax"]
       ELSE [value |-> IF signed /\ Head(s) = "-" THEN 0 - ParseDigits(digits)
                       ELSE ParseDigits(digits),
             err |-> "nil"]

\* TELEGRAM_CHAT_ID of a private chat, of a group, and a channel name
\* (which sendMessage takes, and ParseInt does not)
ChatIDs == {<<"4", "2">>, <<"-", "4", "2">>, <<"@", "o", "p", "s">>}

\* The chat id of the specifications that do not poll
ConfiguredChat == <<"4", "2">>

\* The chats updates come from: Telegram numbers users from 1 up and groups
\* from -1 down
UpdateChats == {42, 0 - 42}

\* The text of a message, in the pieces that matter to the loop: "/", " ",
\* "@" and the words between them
Texts ==
    {<<"/", "status">>, <<"/", "help", "@", "spotbot">>,
     <<"/", "status", " ", "now">>, <<"status">>, <<"/">>}

\* The pieces of text before the first piece sep: strings.Split(text, sep)[0]
RECURSIVE Before(_, _)
Before(text, sep) ==
    IF text = <<>> \/ Head(text) = sep THEN <<>>
    ELSE <<Head(text)>> \o Before(Tail(text), sep)

\* strings.HasPrefix(text, "/")
HasPrefix(text) == text # <<>> /\ Head(text) = "/"

\* The command of a text that begins with "/": the first word after it,
\* without the name of the bot
Command(text) ==
    LET word == Before(Before(Tail(text), " "), "@")
    IN IF word = <<>> THEN "" ELSE Head(word)

\* TelegramUpdate: a callback query (with its message, or without), a
\* message, or neither (an edited message, a channel post); chat is
\* Message.Chat.ID, payload the callback data or the text
Update(id, kind, chat, payload) ==
    [id |-> id, kind |-> kind, chat |-> chat, payload |-> payload]

\* What Telegram can receive for the bot
Received(id) ==
    {Update(id, "message", c, t) : c \in UpdateChats, t \in Texts}
      \cup {Update(id, "callback", c, Join(<<"cbwp", "back">>)) : c \in UpdateChats}
      \cup {Update(id, "callback-no-message", 0, Join(<<"cbwp", "back">>)),
            Update(id, "other", 0, <<>>)}

\* NewBotHandler. chatID, lastUpdateID: the fields of the handler; queue,
\* sent: the updates Telegram holds for the bot and how many it has
\* received; pc, batch, cur, before: the position of PollUpdates, the
\* updates of the response still to process, the update handed to a handler
\* and the number of handler calls before it; ret: what the last call of
\* PollUpdates returned; handled: the updates handed to a handler; logged:
\* the ids of those whose handler returned an error
NewBotHandler(chatID) ==
    [chatID |-> chatID, lastUpdateID |-> 0, queue |-> <<>>, sent |-> 0,
     pc |-> "idle", batch |-> <<>>, cur |-> Update(0, "other", 0, <<>>),
     before |-> 0, ret |-> "none", handled |-> <<>>, logged |-> {}]

\* Everything but the polling loop and Telegram's queue stays as it is
PollFrame ==
    UNCHANGED <<cfg, instances, lastNotify, lastDelivered, chinaShutdown,
                nonChinaShutdown, now, cloud, chk, refreshLog, shut, traffic,
                disc, reg, gcp, cbwp, bot, lk>>

\* Telegram receives an update for the bot and numbers it
TelegramReceives ==
    /\ poll.sent < MaxUpdates
    /\ \E u \in Received(poll.sent + 1) :
         poll' = [poll EXCEPT !.queue = Append(@, u), !.sent = @ + 1]
    /\ PollFrame

\* getUpdates?offset=n: Telegram forgets the updates below n and answers
\* with the others
GetUpdates(offset) == SelectSeq(poll.queue, LAMBDA u : u.id >= offset)

\* PollUpdates up to the loop: the request fails, the response cannot be
\* decoded or is not OK, and the call returns the error; or the loop begins
PollGet ==
    /\ cfg.TelegramEnabled
    /\ poll.pc = "idle"
    /\ \/ poll' = [poll EXCEPT !.ret = "get error"]
       \/ LET result == GetUpdates(poll.lastUpdateID + 1)
          IN poll' = [poll EXCEPT !.queue = result, !.batch = result,
                                  !.pc = "loop", !.ret = "none"]
    /\ PollFrame

\* Mutant of Authorized: the chat of the update is not looked at
AuthorizedAnyChat(update, chatID) ==
    \/ update.kind = "callback"
    \/ update.kind = "message"

\* The update comes from the chat of the configuration: the two tests of
\* the loop, Message != nil && Message.Chat.ID == chatIDInt for a callback
\* and Message.Chat.ID != chatIDInt for a message
Authorized(update, chatID) ==
    LET chatIDInt == ParseInt(chatID).value
    IN \/ update.kind = "callback" /\ update.chat = chatIDInt
       \/ update.kind = "message" /\ update.chat = chatIDInt

\* The update is handed to a handler: a callback to the callback handler, a
\* message whose text begins with "/" to the command handler (New sets
\* both handlers)
Dispatched(update, chatID) ==
    /\ Authorized(update, chatID)
    /\ update.kind = "message" => HasPrefix(update.payload)

\* The head of the loop: the offset moves to the update, then the update is
\* handed over or passed by
PollNext ==
    /\ poll.pc = "loop"
    /\ poll.batch # <<>>
    /\ LET update == Head(poll.batch)
       IN IF Dispatched(update, poll.chatID)
          THEN poll' = [poll EXCEPT !.lastUpdateID = update.id, !.cur = update,
                                    !.before = bot.n, !.pc = "call"]
          ELSE poll' = [poll EXCEPT !.lastUpdateID = update.id,
                                    !.batch = Tail(@)]
    /\ PollFrame

\* b.callbackHandler(..., Data, ...) or b.commandHandler(command) runs
PollCall ==
    /\ poll.pc = "call"
    /\ bot.n = poll.before
    /\ IF poll.cur.kind = "callback"
       THEN handleCallbackQuery(poll.cur.payload)
       ELSE handleBotCommand(Command(poll.cur.payload))

\* Mutant of PollCalled: the error of a handler ends PollUpdates, which
\* returns it
PollCalledReturnsError ==
    /\ poll.pc = "call"
    /\ bot.n = poll.before + 1
    /\ IF bot.ret # "nil"
       THEN poll' = [poll EXCEPT !.handled = Append(@, poll.cur),
                                 !.logged = @ \cup {poll.cur.id},
                                 !.batch = <<>>, !.pc = "idle", !.ret = bot.ret]
       ELSE poll' = [poll EXCEPT !.handled = Append(@, poll.cur),
                                 !.batch = Tail(@), !.pc = "loop"]
    /\ PollFrame

\* The handler has returned: its error is logged, and the loop goes on
PollCalled ==
    /\ poll.pc = "call"
    /\ bot.n = poll.before + 1
    /\ poll' = [poll EXCEPT !.handled = Append(@, poll.cur),
                            !.logged = IF bot.ret # "nil" THEN @ \cup {poll.cur.id}
                                       ELSE @,
                            !.batch = Tail(@), !.pc = "loop"]
    /\ PollFrame

\* The loop is over: return nil
PollReturn ==
    /\ poll.pc = "loop"
    /\ poll.batch = <<>>
    /\ poll' = [poll EXCEPT !.pc = "idle", !.ret = "nil"]
    /\ PollFrame

\* StartPolling: PollUpdates again and again
PollUpdates == PollGet \/ PollNext \/ PollCall \/ PollCalled \/ PollReturn

----------------------------------------------------------------------------
(* The three locks: Monitor.mu, Monitor.lastNotifyMu and *)
(* Monitor.trafficShutdownMu, and the order in which every task takes them *)

Locks == {"mu", "lastNotifyMu", "trafficShutdownMu"}

\* The tasks that run side by side: the check cycle, the traffic budget
\* enforcer, the bulk shutdown of either group, the credits check and the
\* bot's handler
ShutdownTasks == {"shutdownRegionInstances/china", "shutdownRegionInstances/non-china"}

LockTasks == {"Check", "CheckTraffic", "CheckGCPCredits", "handler"} \cup ShutdownTasks

\* One lock operation of a task's path
LockOp(op, lock) == [op |-> op, lock |-> lock, task |-> "none"]

\* l.RLock() ... l.RUnlock()
ReadSection(l) == <<LockOp("RLock", l), LockOp("RUnlock", l)>>

\* l.Lock() ... l.Unlock()
WriteSection(l) == <<LockOp("Lock", l), LockOp("Unlock", l)>>

\* refreshInstances: nothing is locked when the discovery fails
RefreshLocks == {<<>>, WriteSection("mu")}

\* checkInstance: the latches are read; a stopped instance then passes the
\* cooldown gate (canNotify) and, the gate open, records the alert time
\* (updateNotifyTime)
CheckInstanceLocks ==
    {ReadSection("trafficShutdownMu"),
     ReadSection("trafficShutdownMu") \o ReadSection("lastNotifyMu"),
     ReadSection("trafficShutdownMu") \o ReadSection("lastNotifyMu")
        \o WriteSection("lastNotifyMu")}

\* Check: the reconciliation, the snapshot, then checkInstance for an
\* instance of the snapshot (every further call starts as the first one,
\* with no lock held)
CheckLocks ==
    {r \o ReadSection("mu") \o c :
        r \in RefreshLocks, c \in CheckInstanceLocks \cup {<<>>}}

\* shutdownRegionInstances: the registry is copied under the read lock
ShutdownLocks == {ReadSection("mu")}

\* Mutant of Launch: shutdownRegionInstances is called, not started as a
\* goroutine
LaunchInline(t) == ReadSection("mu")

\* CheckTraffic: go m.shutdownRegionInstances(...)
Launch(t) == <<[op |-> "go", lock |-> "none", task |-> t]>>

\* CheckTraffic: nothing is locked when the traffic shutdown is disabled or
\* the query fails; otherwise the latches are updated, and the bulk
\* shutdowns launched, under the write lock held until the return
CheckTrafficLocks ==
    {<<>>}
      \cup {<<LockOp("Lock", "trafficShutdownMu")>> \o c \o n
              \o <<LockOp("Unlock", "trafficShutdownMu")>> :
              c \in {<<>>, Launch("shutdownRegionInstances/china")},
              n \in {<<>>, Launch("shutdownRegionInstances/non-china")}}

\* CheckGCPCredits: canNotify, then updateNotifyTime when the alert was sent
CreditsLocks ==
    {<<>>, ReadSection("lastNotifyMu"),
     ReadSection("lastNotifyMu") \o WriteSection("lastNotifyMu")}

\* The handlers of the bot: the reports and the bandwidth package handlers
\* copy or search the registry; the traffic report reads the latches; the
\* others take no lock
HandlerLocks == {<<>>, ReadSection("mu"), ReadSection("trafficShutdownMu")}

LockPaths(t) ==
    CASE t = "Check" -> CheckLocks
      [] t = "CheckTraffic" -> CheckTrafficLocks
      [] t = "CheckGCPCredits" -> CreditsLocks
      [] t = "handler" -> HandlerLocks
      [] OTHER -> ShutdownLocks

\* A task at rest. on: the task is on a path; path: what is left of it
NoPath == [on |-> FALSE, path |-> <<>>]

LkIdle ==
    [locks |-> [l \in Locks |-> [writer |-> FALSE, owner |-> "none", readers |-> {}]],
     task |-> [t \in LockTasks |-> NoPath]]

\* The locks task t holds
LkHeld(t) ==
    {l \in Locks : \/ t \in lk.locks[l].readers
                   \/ lk.locks[l].writer /\ lk.locks[l].owner = t}

\* The operation task t is at, if it is on a path
LkAt(t) == Head(lk.task[t].path)

LkRunning(t) == lk.task[t].on /\ lk.task[t].path # <<>>

LkStep(l) ==
    /\ lk' = l
    /\ UNCHANGED <<poll, bot, cbwp, gcp, reg, lastDelivered, cfg, instances, lastNotify,
                   chinaShutdown, nonChinaShutdown, now, cloud, chk, refreshLog,
                   shut, traffic, disc>>

\* A periodic task, or a handler, starts on one of its paths
LkBegin(t) ==
    /\ t \notin ShutdownTasks
    /\ ~lk.task[t].on
    /\ \E p \in LockPaths(t) : LkStep([lk EXCEPT !.task[t] = [on |-> TRUE, path |-> p]])

\* RLock() and Lock(): the task goes on when the lock lets it in
LkAcquire(t) ==
    /\ LkRunning(t)
    /\ LET l == LkAt(t).lock IN
         \/ /\ LkAt(t).op = "RLock"
            /\ CanRLock(lk.locks[l])
            /\ LkStep([lk EXCEPT !.locks[l].readers = lk.locks[l].readers \cup {t},
                                 !.task[t].path = Tail(lk.task[t].path)])
         \/ /\ LkAt(t).op = "Lock"
            /\ CanLock(lk.locks[l])
            /\ LkStep([lk EXCEPT !.locks[l].writer = TRUE,
                                 !.locks[l].owner = t,
                                 !.task[t].path = Tail(lk.task[t].path)])

\* RUnlock() and Unlock()
LkRelease(t) ==
    /\ LkRunning(t)
    /\ LET l == LkAt(t).lock IN
         \/ /\ LkAt(t).op = "RUnlock"
            /\ LkStep([lk EXCEPT !.locks[l].readers = lk.locks[l].readers \ {t},
                                 !.task[t].path = Tail(lk.task[t].path)])
         \/ /\ LkAt(t).op = "Unlock"
            /\ LkStep([lk EXCEPT !.locks[l].writer = FALSE,
                                 !.locks[l].owner = "none",
                                 !.task[t].path = Tail(lk.task[t].path)])

\* go m.shutdownRegionInstances(...): the goroutine starts on its path and
\* the launching task goes on (a goroutine of the group still running takes
\* the same path)
LkGo(t) ==
    /\ LkRunning(t)
    /\ LkAt(t).op = "go"
    /\ LET g == LkAt(t).task IN
         \E p \in LockPaths(g) :
           LkStep([lk EXCEPT !.task[t].path = Tail(lk.task[t].path),
                             !.task[g] = IF lk.task[g].on THEN lk.task[g]
                                         ELSE [on |-> TRUE, path |-> p]])

\* The task has come to the end of its path
LkEnd(t) ==
    /\ lk.task[t].on
    /\ lk.task[t].path = <<>>
    /\ LkStep([lk EXCEPT !.task[t] = NoPath])

LockTask ==
    \E t \in LockTasks :
      LkBegin(t) \/ LkAcquire(t) \/ LkRelease(t) \/ LkGo(t) \/ LkEnd(t)

----------------------------------------------------------------------------
(* The specifications *)

Configs ==
    [RetryCount : 0..MaxRetryCount, TelegramEnabled : BOOLEAN,
     TrafficShutdownEnabled : BOOLEAN]

\* The traffic task after a call that has set the latches of the groups in L
\* (and whose bulk shutdowns have ended)
TrafficLatched(L) ==
    [TrafficIdle EXCEPT
       !.ret = IF L = {} THEN "none" ELSE "nil",
       !.seen = [china |-> IF "china" \in L THEN TrafficLimitChinaGB ELSE 0,
                 nonChina |-> IF "non-china" \in L THEN TrafficLimitNonChinaGB ELSE 0],
       !.launched = L,
       !.streak = [g \in Groups |-> IF g \in L THEN 1 ELSE 0]]

\* New: the monitor with configuration c and TELEGRAM_CHAT_ID chatID, the latches
\* of the groups in L set, the instances of F at the provider, running, and
\* the registry R
New(c, L, F, R, chatID) ==
    /\ cfg = c
    /\ instances = R
    /\ lastNotify = [k \in Keys |-> Never]
    /\ lastDelivered = [k \in Keys |-> Never]
    /\ chinaShutdown = ("china" \in L)
    /\ nonChinaShutdown = ("non-china" \in L)
    /\ now = 0
    /\ cloud = [id \in InstanceIDs |-> IF id \in F THEN "Running" ELSE Released]
    /\ chk = ChkIdle
    /\ refreshLog = NoLog
    /\ shut = EmptyBag
    /\ traffic = TrafficLatched(L)
    /\ disc = DiscIdle
    /\ reg = RegIdle
    /\ bot = BotIdle
    /\ lk = LkIdle
    /\ poll = NewBotHandler(chatID)

\* The monitor of the specifications that do not poll
StartMonitor(c, L, F, R) == New(c, L, F, R, ConfiguredChat)

\* The monitor with the GCP billing client (b: it was created), no EIP at
\* the provider
StartGCP(c, L, F, R, b) ==
    /\ StartMonitor(c, L, F, R)
    /\ gcp = [GcpIdle EXCEPT !.billing = b]
    /\ cbwp = CbwpIdle

\* The monitor without GCP credits monitoring (GCP_CREDITS_ENABLED is off
\* by default)
Start(c, L, F, R) == StartGCP(c, L, F, R, FALSE)

\* The fleet of the engine and traffic specifications: one instance a group
TwoInstances == {"i-001", "i-002"}

\* What the startup discovery of the fleet F can have left in the registry
Discovered(F) == {[k \in 1..Len(s) |-> SpotInstance(s[k])] : s \in InjectiveSeqs(F)}

\* The check cycle, whatever the latches are
Init ==
    \E c \in Configs, L \in SUBSET Groups :
        /\ c.TrafficShutdownEnabled = (L # {})
        /\ Start(c, L, TwoInstances, <<>>)

Next == CheckTask \/ Provider

Spec == Init /\ [][Next]_vars

\* The check cycle and the clock: the cooldown table, for a fleet of one
InitCooldown ==
    \E c \in Configs :
        /\ ~c.TrafficShutdownEnabled
        /\ Start(c, {}, {"i-001"}, <<>>)

NextCooldown == CheckTask \/ Provider \/ Tick

SpecCooldown == InitCooldown /\ [][NextCooldown]_vars

\* The reconciliation of the check cycle, the whole fleet running
InitReconcile ==
    \E c \in Configs :
        /\ c.RetryCount = 1
        /\ c.TelegramEnabled
        /\ ~c.TrafficShutdownEnabled
        /\ Start(c, {}, InstanceIDs, <<>>)

NextReconcile ==
    \/ CheckRefresh \/ CheckSnapshot \/ CheckDone
    \/ CiReadLatch \/ CiStatus \/ CiReturn

SpecReconcile == InitReconcile /\ [][NextReconcile]_vars

\* The discovery scans of a fleet of which the instances of F exist
InitDiscover ==
    \E c \in Configs, F \in SUBSET InstanceIDs :
        /\ c.RetryCount = 1
        /\ c.TelegramEnabled
        /\ ~c.TrafficShutdownEnabled
        /\ Start(c, {}, F, <<>>)

NextDiscover == ScanTask

SpecDiscover == InitDiscover /\ [][NextDiscover]_vars

\* The readers of the registry and its replacement, side by side
InitRegistry ==
    \E c \in Configs :
        /\ c.RetryCount = 1
        /\ c.TelegramEnabled
        /\ ~c.TrafficShutdownEnabled
        /\ Start(c, {}, TwoInstances, <<>>)

NextRegistry == RegistryTask

SpecRegistry == InitRegistry /\ [][NextRegistry]_vars

\* The check cycle beside the traffic budget enforcer and its bulk
\* shutdowns, for a fleet of one
InitEngine ==
    \E c \in Configs :
        /\ c.RetryCount = 1
        /\ ~c.TelegramEnabled
        /\ Start(c, {}, {"i-001"}, <<SpotInstance("i-001")>>)

NextEngine == CheckTask \/ TrafficTaskInMonth \/ ShutdownTask \/ Provider

SpecEngine == InitEngine /\ [][NextEngine]_vars

\* The discoveries of the driving process and the check cycles
InitStartup ==
    \E c \in Configs :
        /\ c.RetryCount = 1
        /\ ~c.TrafficShutdownEnabled
        /\ Start(c, {}, TwoInstances, <<>>)

NextStartup ==
    \/ DiscoverInstances
    \/ CheckRefresh \/ CheckSnapshot \/ CheckDone
    \/ CiReadLatch \/ CiStatus \/ CiReturn

SpecStartup == InitStartup /\ [][NextStartup]_vars

\* The configurations with GCP credits monitoring
GCPConfigs ==
    [RetryCount : {1}, TelegramEnabled : BOOLEAN,
     TrafficShutdownEnabled : {FALSE}, GCPCreditsEnabled : BOOLEAN,
     GCPCreditsAlertPercent : 0..MaxPct]

\* The GCP credits check, the startup discovery and the clock. The billing
\* client exists only if GCP credits monitoring is enabled, and then unless
\* its creation failed
InitCredits ==
    \E c \in GCPConfigs, b \in BOOLEAN :
        /\ b => c.GCPCreditsEnabled
        /\ StartGCP(c, {}, {"i-001"}, <<>>, b)

NextCredits == CheckGCPCredits \/ DiscoverInstances \/ Tick

SpecCredits == InitCredits /\ [][NextCredits]_vars

\* The bandwidth package callbacks of the bot, after the startup discovery
\* of a part of the fleet, whatever EIPs the provider holds
InitCBWP ==
    \E c \in Configs, F \in SUBSET TwoInstances :
      \E R \in Discovered(F), E \in EIPStates :
        /\ c.RetryCount = 1
        /\ c.TelegramEnabled
        /\ ~c.TrafficShutdownEnabled
        /\ StartMonitor(c, {}, TwoInstances, R)
        /\ gcp = GcpIdle
        /\ cbwp = [CbwpIdle EXCEPT !.eips = E]

NextCBWP == CallbackTask

SpecCBWP == InitCBWP /\ [][NextCBWP]_vars

\* The listing of a region page by page, while instances are launched and
\* released there
InitPaging ==
    \E c \in Configs :
        /\ c.RetryCount = 1
        /\ c.TelegramEnabled
        /\ ~c.TrafficShutdownEnabled
        /\ Start(c, {}, {}, <<>>)

NextPaging == PageTask

SpecPaging == InitPaging /\ [][NextPaging]_vars

\* The commands and the callbacks of the bot, whatever the callback data,
\* after the startup discovery of a part of the fleet, the provider holding
\* one EIP of the first instance
InitDispatch ==
    \E c \in Configs, F \in SUBSET {"i-001"}, p \in PoolIDs \cup {NoPool} :
      \E R \in Discovered(F) :
        /\ c.RetryCount = 1
        /\ c.TelegramEnabled
        /\ ~c.TrafficShutdownEnabled
        /\ StartMonitor(c, {}, TwoInstances, R)
        /\ gcp = GcpIdle
        /\ cbwp = [CbwpIdle EXCEPT !.eips = <<EIPInfo("eip-1", "i-001", p)>>]

NextDispatch == CommandTask \/ AnyCallbackTask

SpecDispatch == InitDispatch /\ [][NextDispatch]_vars

\* The commands of the bot beside the provider, after the startup discovery
\* of a part of the fleet, the latch of the China group set or not
InitBot ==
    \E c \in Configs, F \in SUBSET TwoInstances, L \in SUBSET {"china"} :
      \E R \in Discovered(F) :
        /\ c.RetryCount = 1
        /\ c.TelegramEnabled
        /\ c.TrafficShutdownEnabled = (L # {})
        /\ Start(c, L, TwoInstances, R)

NextBot == CommandTask \/ Provider

SpecBot == InitBot /\ [][NextBot]_vars

\* The tasks of the monitor taking and releasing the three locks
InitLocks ==
    \E c \in Configs :
        /\ c.RetryCount = 1
        /\ c.TelegramEnabled
        /\ c.TrafficShutdownEnabled
        /\ Start(c, {}, TwoInstances, <<>>)

NextLocks == LockTask

SpecLocks == InitLocks /\ [][NextLocks]_vars

\* The check cycle, whose rediscoveries succeed, beside the traffic checks of
\* one billing month and the bulk shutdowns, whose calls succeed, for a fleet
\* of one: a bulk shutdown that can take a step eventually takes it, a
\* starting or stopping instance eventually settles, and the check cycles
\* go on
InitSuppress ==
    \E c \in Configs :
        /\ c.RetryCount = 1
        /\ ~c.TelegramEnabled
        /\ c.TrafficShutdownEnabled
        /\ Start(c, {}, {"i-001"}, <<SpotInstance("i-001")>>)

\* The check cycles whose rediscovery lists the fleet as it is: the registry
\* keeps its content
CheckTaskFleetListed == CheckTask /\ instances' = instances

ProviderSettles == \E id \in InstanceIDs : Settle(id)

ProviderReclaims == \E id \in InstanceIDs : Reclaim(id)

\* The traffic checks of one billing month whose query succeeds
TrafficChecksInMonth ==
    \E seen \in QueryInternetTraffic :
        /\ seen.china >= traffic.seen.china
        /\ seen.nonChina >= traffic.seen.nonChina
        /\ CheckTraffic(seen)

NextSuppress ==
    \/ CheckTaskFleetListed
    \/ TrafficChecksInMonth
    \/ ShutdownTaskSucceeding
    \/ ProviderSettles
    \/ ProviderReclaims

SpecSuppress ==
    /\ InitSuppress
    /\ [][NextSuppress]_vars
    /\ WF_vars(ShutdownTaskSucceeding)
    /\ WF_vars(ProviderSettles)
    /\ WF_vars(CheckTaskFleetListed)

\* The check cycle of a fleet of one beside the provider, for every retry
\* budget: the check task runs on whatever the provider does (its calls to
\* the provider return, the ticker and the deadline of the wait fire)
InitTerminate ==
    \E c \in Configs :
        /\ ~c.TrafficShutdownEnabled
        /\ Start(c, {}, {"i-001"}, <<>>)

NextTerminate == CheckTask \/ Provider

SpecTerminate == InitTerminate /\ [][NextTerminate]_vars /\ WF_vars(CheckTask)

\* The check cycle beside a provider whose instances are reclaimed and
\* released, for a fleet of one
InitGone ==
    \E c \in Configs :
        /\ c.TelegramEnabled
        /\ ~c.TrafficShutdownEnabled
        /\ Start(c, {}, {"i-001"}, <<>>)

ProviderReleases == \E id \in InstanceIDs : Release(id)

NextGone ==
    CheckTask \/ ProviderReclaims \/ ProviderSettles \/ ProviderReleases

SpecGone == InitGone /\ [][NextGone]_vars

\* Every task that reads the registry beside the two that replace it, for a
\* fleet of one with one EIP. The monitor runs the bot after the startup
\* discovery, commands first and callbacks then, the fleet at rest; or the
\* check cycle after the startup discovery; or the check cycle beside the
\* traffic checks of the China group and the bulk shutdowns
InitFrame ==
    \E c \in Configs :
        /\ c.RetryCount = 1
        /\ ~(c.TelegramEnabled /\ c.TrafficShutdownEnabled)
        /\ StartMonitor(c, {}, {"i-001"}, <<>>)
        /\ gcp = GcpIdle
        /\ cbwp = [CbwpIdle EXCEPT !.eips = <<EIPInfo("eip-1", "i-001", NoPool)>>]

AtStartup == chk = ChkIdle /\ bot = BotIdle /\ ~cfg.TrafficShutdownEnabled

ChinaTrafficChecks ==
    \E seen \in QueryInternetTraffic :
        /\ seen.china >= traffic.seen.china
        /\ seen.nonChina = 0
        /\ CheckTraffic(seen)

NextFrame ==
    \/ ~cfg.TelegramEnabled /\ CheckTask
    \/ ChinaTrafficChecks
    \/ ShutdownTask
    \/ ~cfg.TelegramEnabled /\ ProviderReclaims
    \/ ~cfg.TelegramEnabled /\ ProviderSettles
    \/ AtStartup /\ DiscoverInstances
    \/ cbwp.n = 0 /\ CommandTask
    \/ CallbackTask

SpecFrame == InitFrame /\ [][NextFrame]_vars

\* The traffic budget enforcer over the months, after the startup discovery
\* of a fleet of one
InitTraffic ==
    \E c \in Configs :
        /\ c.RetryCount = 1
        /\ Start(c, {}, {"i-001"}, <<SpotInstance("i-001")>>)

NextTraffic == TrafficTask \/ ShutdownTask

SpecTraffic == InitTraffic /\ [][NextTraffic]_vars

\* The bulk shutdowns of one billing month, after the startup discovery
InitShutdown ==
    \E c \in Configs, R \in Discovered(TwoInstances) :
        /\ c.RetryCount = 1
        /\ Start(c, {}, TwoInstances, R)

NextShutdown == TrafficTaskInMonth \/ ShutdownTask \/ Provider

SpecShutdown == InitShutdown /\ [][NextShutdown]_vars

----------------------------------------------------------------------------
(* The claims *)

InCall == chk.pc \notin {"idle", "snapshot", "loop"}

\* C1: in a checkInstance call whose status query returned Stopped (the
\* latch being clear), at most RetryCount start commands are issued, and the
\* attempt in which the start command and the running-wait both succeeded is
\* the last one: the start commands are the failed attempts and that one.
C1_StartsBounded ==
    (InCall /\ chk.call.status = "Stopped") =>
        /\ ~chk.call.blocked
        /\ chk.call.starts <= cfg.RetryCount
        /\ (chk.pc = "started" \/ chk.call.exit = "started") =>
               chk.call.starts = chk.call.i + 1

\* A call that succeeded with retry budget left
C1_Witness ==
    /\ chk.pc = "return"
    /\ chk.call.status = "Stopped"
    /\ chk.call.exit = "started"
    /\ chk.call.starts >= 1
    /\ chk.call.starts < cfg.RetryCount

\* C2: a checkInstance call whose status query returned a status other than
\* Stopped returns nil at once: no start command, no notification, no write
\* to the cooldown table.
C2_NotStoppedNoOp ==
    (InCall /\ chk.call.status \in Statuses \ {"Stopped"}) =>
        /\ chk.pc = "return"
        /\ chk.call.starts = 0
        /\ chk.call.notes = <<>>
        /\ chk.call.gate.state = "none"
        /\ chk.call.cdWrites = 0
        /\ chk.call.ret = "nil"

\* A call that found the instance stopping
C2_Witness ==
    /\ chk.pc = "return"
    /\ chk.call.status = "Stopping"

\* C3: during a run of CheckTraffic calls that all see a group at or over its
\* budget, exactly one bulk shutdown is launched for the group, by the first
\* call of the run; a call launches one only for a group it sees at or
\* over its budget.
C3_SeenOver(g) ==
    IF g = "china" THEN traffic.seen.china >= TrafficLimitChinaGB
    ELSE traffic.seen.nonChina >= TrafficLimitNonChinaGB

C3_OneLaunchPerRun ==
    \A g \in Groups :
        /\ traffic.streak[g] = (IF C3_SeenOver(g) THEN 1 ELSE 0)
        /\ g \in traffic.launched => C3_SeenOver(g)

\* A later call of such a run: the latch is set and nothing was launched
C3_Witness ==
    /\ cfg.TrafficShutdownEnabled
    /\ traffic.ret = "nil"
    /\ traffic.seen.china > TrafficLimitChinaGB
    /\ traffic.streak["china"] = 1
    /\ "china" \notin traffic.launched
    /\ chinaShutdown

\* The bulk shutdowns of group g a step launches
C4_Launched(g) == CopiesIn(NewShutdown(g), shut') - CopiesIn(NewShutdown(g), shut)

C4_Over(g, seen) ==
    IF g = "china" THEN seen.china >= TrafficLimitChinaGB
    ELSE seen.nonChina >= TrafficLimitNonChinaGB

\* C4: a CheckTraffic call that sees a group under its budget while the
\* group's latch is set clears the latch, launches no shutdown and sends no
\* notification; a call that sees the group at or over its budget while the
\* latch is clear sets the latch and launches one bulk shutdown. (The step
\* of a call that saw seen leaves seen in traffic.seen.)
C4_LatchReset ==
    [][LET seen == traffic'.seen IN
       CheckTraffic(seen) =>
         \A g \in Groups :
            /\ (Latch(g) /\ ~C4_Over(g, seen)) =>
                   /\ ~Latch(g)'
                   /\ C4_Launched(g) = 0
                   /\ g \notin traffic'.launched
                   /\ traffic'.notes = <<>>
            /\ (~Latch(g) /\ C4_Over(g, seen)) =>
                   /\ Latch(g)'
                   /\ C4_Launched(g) = 1
                   /\ g \in traffic'.launched]_vars

\* A latch that was cleared is set again, and a shutdown is launched again
C4_Witness ==
    \E g \in Groups :
        /\ traffic.rearmed[g]
        /\ Latch(g)
        /\ g \in traffic.launched
        /\ \E t \in BagToSet(shut) : t.region = g /\ t.pc = "snapshot"

\* C5: the latches change only in a CheckTraffic call whose query succeeded,
\* and after such a call each latch is set exactly when the call saw the
\* group at or over its budget, whatever it saw of the other group. (The
\* step of a call that saw seen leaves seen in traffic.seen.)
C5_LatchTracksTraffic ==
    [][LET seen == traffic'.seen IN
       /\ (chinaShutdown' # chinaShutdown \/ nonChinaShutdown' # nonChinaShutdown) =>
              CheckTraffic(seen)
       /\ CheckTraffic(seen) =>
              /\ chinaShutdown' = (seen.china >= TrafficLimitChinaGB)
              /\ nonChinaShutdown' = (seen.nonChina >= TrafficLimitNonChinaGB)]_vars

\* One group over its budget, the other under its own but over the first's
C5_Witness ==
    /\ traffic.ret = "nil"
    /\ traffic.seen.china >= TrafficLimitChinaGB
    /\ traffic.seen.nonChina >= TrafficLimitChinaGB
    /\ traffic.seen.nonChina < TrafficLimitNonChinaGB
    /\ chinaShutdown
    /\ ~nonChinaShutdown

\* C6: a checkInstance call that read the latch of the instance's group as
\* set returns nil at once: no status query, no start command, no
\* notification, no write to the cooldown table.
C6_LatchedNoOp ==
    (InCall /\ GroupOf(Inst) \in chk.call.read) =>
        /\ chk.pc = "return"
        /\ chk.call.blocked
        /\ chk.call.status = "none"
        /\ chk.call.starts = 0
        /\ chk.call.notes = <<>>
        /\ chk.call.gate.state = "none"
        /\ chk.call.cdWrites = 0
        /\ chk.call.ret = "nil"

\* A stopped instance of a latched group, left alone
C6_Witness ==
    /\ chk.pc = "return"
    /\ GroupOf(Inst) \in chk.call.read
    /\ cloud[Inst.InstanceID] = "Stopped"

C7_Reclaimed(notes) == {j \in 1..Len(notes) : notes[j].kind = "reclaimed"}

C8_Reconciled ==
    refreshLog.ran =>
        LET O == refreshLog.old
            N == refreshLog.new
            added == {inst \in Range(N) : inst.InstanceID \notin IDsOf(O)}
            removed == {inst \in Range(O) : inst.InstanceID \notin IDsOf(N)}
        IN /\ instances = N
           /\ Range(refreshLog.added) = added
           /\ Len(refreshLog.added) = Cardinality(added)
           /\ Range(refreshLog.removed) = removed
           /\ Len(refreshLog.removed) = Cardinality(removed)

\* Old {A, B}, new {A, C}
C8_Witness ==
    /\ refreshLog.ran
    /\ IDsOf(refreshLog.old) = {"i-001", "i-002"}
    /\ IDsOf(instances) = {"i-001", "i-003"}
    /\ IDsOf(refreshLog.removed) = {"i-002"}
    /\ IDsOf(refreshLog.added) = {"i-003"}

\* C9: every stop command of a bulk shutdown goes to an instance of the
\* shutdown's registry snapshot that is of the shutdown's group and whose
\* status query returned Running, with the stop mode StopCharging.
C9_StopsOnlyRunningOfGroup ==
    \A t \in BagToSet(shut) :
        \A c \in t.stops :
            /\ c.mode = "StopCharging"
            /\ c.seen = "Running"
            /\ \E k \in 1..Len(t.snap) :
                  /\ t.snap[k].InstanceID = c.InstanceID
                  /\ t.snap[k] \in Range(instances)
                  /\ IsChinaMainlandRegion(t.snap[k].RegionID) = (t.region = "china")

\* A bulk shutdown that stopped its group's instance and left the running
\* instance of the other group alone
C9_Witness ==
    \E t \in BagToSet(shut) :
        /\ t.pc = "done"
        /\ t.stops # {}
        /\ \E k \in 1..Len(t.snap) :
              /\ GroupOf(t.snap[k]) # t.region
              /\ cloud[t.snap[k].InstanceID] = "Running"

\* The instances whose stop command reported success
C10_Stopped(t) == {c.InstanceID : c \in {c \in t.stops : ~c.err}}

\* C10 as stated: every bulk shutdown sends exactly one notification, which
\* lists the instances stopped.
C10_AsStated ==
    \A t \in BagToSet(shut) :
        t.pc = "done" =>
            /\ Len(t.notes) = 1
            /\ Range(t.notes[1].list) = C10_Stopped(t)

\* C10, amended: a bulk shutdown sends one notification if there is a
\* notifier and at least one stop command reported success, and none
\* otherwise; the notification is sent after the last stop command and lists
\* exactly the instances whose stop command reported success, each once.
C10_OneNotification ==
    \A t \in BagToSet(shut) :
        /\ t.pc # "done" => t.notes = <<>>
        /\ t.pc = "done" =>
              /\ Len(t.notes) =
                     (IF cfg.TelegramEnabled /\ C10_Stopped(t) # {} THEN 1 ELSE 0)
              /\ \A j \in 1..Len(t.notes) :
                    /\ t.notes[j].kind = "traffic shutdown"
                    /\ Range(t.notes[j].list) = C10_Stopped(t)
                    /\ Len(t.notes[j].list) = Cardinality(C10_Stopped(t))

\* A bulk shutdown that stopped an instance and sent its notification
C10_Witness ==
    \E t \in BagToSet(shut) :
        /\ t.pc = "done"
        /\ Len(t.notes) = 1
        /\ t.notes[1].list # <<>>

\* The notifications of a kind the current checkInstance call has sent
C11_Sent(kind) ==
    Cardinality({j \in 1..Len(chk.call.notes) : chk.call.notes[j].kind = kind})

\* C11 as stated: a call whose attempt k is the first in which the start
\* command and the running-wait succeed has issued exactly k start commands,
\* sent exactly one "started" notification and no "start failed" one, and
\* returns nil.
C11_AsStated ==
    (InCall /\ chk.call.exit = "started") =>
        /\ chk.call.starts = chk.call.i + 1
        /\ chk.call.starts <= cfg.RetryCount
        /\ C11_Sent("started") = 1
        /\ C11_Sent("start failed") = 0
        /\ chk.call.ret = "nil"

\* C11, amended: such a call has issued exactly k start commands, sent one
\* "started" notification if there is a notifier and none otherwise, sent no
\* "start failed" notification, and returns nil.
C11_SuccessAtAttemptK ==
    (InCall /\ chk.call.exit = "started") =>
        /\ chk.pc = "return"
        /\ chk.call.starts = chk.call.i + 1
        /\ chk.call.starts <= cfg.RetryCount
        /\ C11_Sent("started") = (IF cfg.TelegramEnabled THEN 1 ELSE 0)
        /\ C11_Sent("start failed") = 0
        /\ chk.call.ret = "nil"

\* The start command failed, the next attempt succeeded
C11_Witness ==
    /\ chk.pc = "return"
    /\ chk.call.exit = "started"
    /\ chk.call.lastErr = "start failed"
    /\ chk.call.i >= 1
    /\ chk.call.starts = chk.call.i + 1
    /\ C11_Sent("started") = 1

\* C12: for every RetryCount, a call that found the instance stopped and
\* whose attempts all failed has issued exactly RetryCount start commands,
\* sent (there being a notifier) exactly one "start failed" notification and
\* no "started" one, and returns an error.
C12_FailureReported ==
    (InCall /\ chk.call.exit = "failed") =>
        /\ chk.call.starts = cfg.RetryCount
        /\ cfg.TelegramEnabled => C11_Sent("start failed") = 1
        /\ C11_Sent("started") = 0
        /\ chk.call.ret # "nil"

\* C13: when the discovery of a check cycle fails entirely (listing the
\* regions fails, or listing the instances fails in every region), the
\* registry, which the cycle then copies and checks, is still the one it
\* was before the cycle.
C13_KeepsPreviousRegistry ==
    (chk.pc = "snapshot" /\ refreshLog.called /\
     (refreshLog.err \/ refreshLog.failed = Regions)) =>
        instances = refreshLog.old

\* C14: the listing of the regions having succeeded, the discovery returns
\* no error whatever listings of regions fail and however the per-region
\* goroutines interleave (none of which waits for ever), and its result holds
\* each instance a successful listing returned exactly once and nothing
\* else.
C14_ScanResult ==
    LET scan == disc.scan
        listed == UNION {Range(scan.got[r]) : r \in Regions \ scan.failed}
    IN /\ Cardinality(Holding(scan)) <= MaxConcurrentScans
       /\ scan.pc = "scanning" => ~scan.err /\ ENABLED ScanTask
       /\ (scan.pc = "done" /\ ~scan.err) =>
             /\ Range(scan.all) = listed
             /\ Len(scan.all) = Cardinality(listed)
             /\ \A r \in scan.failed : scan.got[r] = <<>>
             /\ IDsOf(scan.all) = {id \in Existing : RegionOf(id) \notin scan.failed}
             /\ [err |-> FALSE, failed |-> scan.failed, list |-> scan.all]
                    \in DiscoverAllSpotInstances

\* One listing failed, the two others appended in the reverse order of the
\* goroutines' start
C14_Witness ==
    /\ disc.scan.pc = "done"
    /\ ~disc.scan.err
    /\ disc.scan.failed = {"cn-beijing"}
    /\ disc.scan.all = <<SpotInstance("i-002"), SpotInstance("i-001")>>

\* The lists the registry can hold
C15_Lists == {d.list : d \in DiscoverAllSpotInstances}

\* C15: a reader of the registry, whatever replacements run beside it, ends
\* up with a copy that is one complete list the registry held: the list it
\* held when the reader took the lock, with the length the reader read.
C15_ConsistentSnapshot ==
    \A r \in Readers :
        /\ reg.rd[r].pc \in {"unlock", "done"} =>
              /\ reg.rd[r].copy = reg.rd[r].atLock
              /\ reg.rd[r].n = Len(reg.rd[r].copy)
              /\ reg.rd[r].copy \in C15_Lists
        /\ reg.rd[r].pc \in {"make", "copy", "unlock"} =>
              /\ ~reg.mu.writer
              /\ instances = reg.rd[r].atLock

\* A reader goes on with its copy of the previous list, the registry having
\* been replaced by another list since
C15_Witness ==
    \E r \in Readers :
        /\ reg.rd[r].pc = "done"
        /\ Len(reg.rd[r].copy) = 2
        /\ instances # reg.rd[r].copy
        /\ instances # <<>>

\* The instances checkInstance has been called for in the cycle, in order
C16_Called == [k \in 1..Len(chk.calls) |-> chk.calls[k].id]

C16_Snapshot(n) == [k \in 1..n |-> chk.snap[k].InstanceID]

\* C16: in a check cycle checkInstance is called one call at a time, in the
\* order of the copy of the registry taken after the reconciliation, once
\* for each of its instances, whatever the earlier calls returned, and Check
\* returns nil.
C16_EveryInstanceOnce ==
    /\ chk.pc \notin {"idle", "snapshot"} => chk.snap = instances
    /\ chk.pc = "loop" =>
          /\ chk.idx <= Len(chk.snap) + 1
          /\ C16_Called = C16_Snapshot(chk.idx - 1)
    /\ InCall =>
          /\ chk.idx <= Len(chk.snap)
          /\ C16_Called = C16_Snapshot(chk.idx)
    /\ (chk.pc = "idle" /\ chk.ret # "none") =>
          /\ chk.ret = "nil"
          /\ C16_Called = C16_Snapshot(Len(chk.snap))

\* A cycle over two instances whose first call returned an error
C16_Witness ==
    /\ chk.pc = "idle"
    /\ chk.ret = "nil"
    /\ Len(chk.snap) = 2
    /\ Len(chk.calls) = 2
    /\ chk.calls[1].failed

\* C17: the only command checkInstance sends to the provider is the start
\* command; the stop commands are those of the bulk shutdowns, each of which
\* was launched by CheckTraffic for a group it saw at or over its budget.
C17_OnlyShutdownStops ==
    /\ chk.call.cmds \subseteq {"StartInstance"}
    /\ \A t \in BagToSet(shut) :
          /\ \A c \in t.stops : c.cmd = "StopInstance"
          /\ cfg.TrafficShutdownEnabled
          /\ traffic.streak[t.region] = 1

\* The engine has sent a start command while a bulk shutdown has sent its
\* stop command
C17_Witness ==
    /\ InCall
    /\ chk.call.cmds = {"StartInstance"}
    /\ \E t \in BagToSet(shut) : t.stops # {}

\* C18: over any sequence of DiscoverInstances calls and check cycles, the
\* "monitor started" notification is sent at most once since the process
\* started, and only by the first DiscoverInstances call (never by a later
\* one, and never by a check cycle, which sends none).
C18_StartedOnlyOnce ==
    /\ disc.sentBy \subseteq {1}
    /\ Cardinality(disc.sentBy) <= 1

\* Some notification of notes was not delivered
C19_DeliveryFailed(notes) == \E j \in 1..Len(notes) : ~notes[j].delivered

\* C19 (as stated): a failed delivery of a notification never makes the
\* operation that sent it report failure: a DiscoverInstances call and a
\* CheckGCPCredits call one of whose notifications was not delivered return
\* nil, and a checkInstance call returns nil, the error of its status query
\* or the error of its last start attempt (shutdownRegionInstances returns
\* nothing). CheckGCPCredits returns the error of the delivery.
C19_DeliveryFailureNotReported ==
    /\ C19_DeliveryFailed(disc.notes) => disc.ret = "nil"
    /\ C19_DeliveryFailed(gcp.notes) => gcp.ret = "nil"
    /\ C19_DeliveryFailed(chk.call.notes) =>
          \/ chk.call.ret \in {"none", "nil", "status error"}
          \/ chk.call.ret = chk.call.lastErr

\* The EIPs the provider lists for the instance of the last callback
C20_Mine(eips, instanceID) == SelectSeq(eips, LAMBDA e : e.InstanceID = instanceID)

\* C20: a bind callback for instance i and pool p makes exactly one attach
\* call, with the first of the EIPs of i (in the provider's order) that is
\* in no pool and with pool p, when i is in the registry, the EIP query
\* succeeds and some EIP of i is in no pool; otherwise it makes none.
C20_BindAttachesFirstFree ==
    [][(cbwp'.n = cbwp.n + 1 /\ cbwp'.call.handler = "bind") =>
        LET call == cbwp'.call
            mine == C20_Mine(cbwp.eips, call.instanceID)
            free == {k \in 1..Len(mine) : mine[k].BandwidthPackageID = NoPool}
            inRegistry == \E k \in 1..Len(instances) :
                             instances[k].InstanceID = call.instanceID
        IN IF inRegistry /\ ~call.queryErr /\ free # {}
           THEN /\ Len(call.attaches) = 1
                /\ call.attaches[1].bandwidthPackageID = call.bwpID
                /\ \E k \in free :
                     /\ \A j \in free : k <= j
                     /\ call.attaches[1].eipID = mine[k].AllocationID
           ELSE call.attaches = <<>>]_vars

\* A bind callback has attached the second EIP of its instance to its pool,
\* the first one being in another pool
C20_Witness ==
    LET call == cbwp.call
        mine == C20_Mine(cbwp.eips, call.instanceID)
    IN /\ call.handler = "bind"
       /\ call.msg = "bound"
       /\ Len(mine) = 2
       /\ mine[1].BandwidthPackageID \notin {NoPool, call.bwpID}
       /\ call.attaches = <<[regionID |-> RegionOf(call.instanceID),
                             bandwidthPackageID |-> call.bwpID,
                             eipID |-> mine[2].AllocationID]>>
       /\ mine[2].BandwidthPackageID = call.bwpID

\* C21: a status report changes nothing: the step in which the bot's
\* "status" command is handled leaves the registry, the cooldown table, both
\* latches, the provider's side (no start or stop command reaches it) and
\* every other task as they were; the only collaborator it asks is the
\* status query.
C21_StatusReportNoSideEffect ==
    [][(bot'.n = bot.n + 1 /\ bot'.handler = "sendStatusReport") =>
          /\ UNCHANGED <<poll, instances, lastNotify, lastDelivered, chinaShutdown,
                         nonChinaShutdown, cloud, chk, shut, traffic, disc, reg,
                         gcp, cbwp, refreshLog, cfg>>
          /\ bot'.asked \subseteq {"GetInstanceStatus"}]_vars

\* The second status report in a row has been sent, listing two instances,
\* one of them stopped, a latch being set
C21_Witness ==
    /\ bot.n = 2
    /\ bot.handler = "sendStatusReport"
    /\ bot.ret = "nil"
    /\ Len(bot.sent) = 1
    /\ Len(bot.sent[1].body) = 2
    /\ \E k \in 1..2 : bot.sent[1].body[k].status = "Stopped"
    /\ chinaShutdown

\* The command names that have a handler
C22_KnownCommands ==
    {"billing", "cost", "fee", "traffic", "flow", "bandwidth", "status", "cbwp",
     "gcpcredits", "credits", "gcp", "help"}

\* The parts of a well-formed cbwp action: the prefix, a known action and
\* the arguments the action needs
C22_WellFormed(parts) ==
    /\ Len(parts) >= 2
    /\ parts[1] = "cbwp"
    /\ \/ parts[2] = "back"
       \/ parts[2] = "select" /\ Len(parts) >= 3
       \/ parts[2] \in {"bind", "unbind"} /\ Len(parts) >= 4

\* The callback data that is not a well-formed cbwp action
C22_Malformed ==
    {Join(parts) : parts \in {p \in CallbackParts : ~C22_WellFormed(p)}}

\* C22: an unknown command, and a callback whose data is not a well-formed
\* cbwp action, is a no-op: the step that handles it runs no handler, sends
\* nothing, asks no collaborator, changes nothing of the monitor or of the
\* provider and returns nil.
C22_UnknownIsNoOp ==
    [][(/\ bot'.n = bot.n + 1
        /\ \/ bot'.kind = "command" /\ bot'.command \notin C22_KnownCommands
           \/ bot'.kind = "callback" /\ bot'.data \in C22_Malformed) =>
          /\ bot'.handler = "none"
          /\ bot'.ret = "nil"
          /\ bot'.sent = <<>>
          /\ bot'.asked = {}
          /\ UNCHANGED <<poll, instances, lastNotify, lastDelivered, chinaShutdown,
                         nonChinaShutdown, cloud, chk, shut, traffic, disc, reg,
                         gcp, cbwp, refreshLog, cfg, lk, now>>]_vars

\* A bind callback without its pool was dropped, the instance being in the
\* registry with an EIP in no pool, after an unknown command
C22_Witness ==
    /\ bot.n = 2
    /\ bot.kind = "callback"
    /\ bot.data = Join(<<"cbwp", "bind", "i-001">>)
    /\ bot.handler = "none"
    /\ bot.ret = "nil"
    /\ cbwp.n = 0
    /\ Len(instances) = 1
    /\ cbwp.eips[1].BandwidthPackageID = NoPool

\* Task t is at RLock() or Lock()
C23_AtAcquire(t) == LkRunning(t) /\ LkAt(t).op \in {"RLock", "Lock"}

\* Task t is at RLock() or Lock() and the lock does not let it in
C23_Waiting(t) ==
    /\ C23_AtAcquire(t)
    /\ IF LkAt(t).op = "RLock" THEN ~CanRLock(lk.locks[LkAt(t).lock])
       ELSE ~CanLock(lk.locks[LkAt(t).lock])

\* C23: no task holds more than one of the three locks, and none asks for a
\* lock while it holds one; so a task that waits for a lock waits for
\* holders that are about to release it, and the tasks never deadlock.
C23_OneLockAtATime ==
    \A t \in LockTasks :
      /\ Cardinality(LkHeld(t)) <= 1
      /\ C23_AtAcquire(t) => LkHeld(t) = {}
      /\ C23_Waiting(t) =>
           \E u \in LockTasks \ {t} :
             /\ LkAt(t).lock \in LkHeld(u)
             /\ LkRunning(u)
             /\ LkAt(u).op \in {"RUnlock", "Unlock", "go"}

\* The three locks are held by three tasks at once (the check cycle writes
\* the cooldown table, CheckTraffic holds the latches' lock, a bulk shutdown
\* copies the registry) and a handler waits for the latches' lock
C23_Witness ==
    /\ LkHeld("Check") = {"lastNotifyMu"}
    /\ lk.locks["lastNotifyMu"].writer
    /\ LkHeld("CheckTraffic") = {"trafficShutdownMu"}
    /\ LkHeld("shutdownRegionInstances/china") = {"mu"}
    /\ C23_Waiting("handler")
    /\ LkAt("handler").lock = "trafficShutdownMu"

\* C24 (as stated): the instance ids of the registry are pairwise distinct
\* after every discovery and reconciliation. The pages of a region's
\* listing are asked for one after the other and nothing removes a
\* repetition: an instance launched in between moves the others down the
\* list, and the last instance of a page is listed again on the next.
C24_DistinctIDs ==
    \A a, b \in 1..Len(instances) :
       a # b => instances[a].InstanceID # instances[b].InstanceID

\* C25 (as stated): no start command is issued for an instance while the
\* latch of its group is set. checkInstance reads the latch once, at its
\* beginning; CheckTraffic can set it, and the bulk shutdown stop the
\* instance, between that read and the start command.
C25_NoStartWhileLatched ==
    [][(InCall /\ chk'.call.starts = chk.call.starts + 1) =>
          ~Latch(GroupOf(Inst))]_vars

\* C26 (as stated): once the latch of a group is set, the calls of the bulk
\* shutdown succeeding and the shutdown being scheduled fairly, a running
\* registry instance of the group is eventually stopped, unless the latch is
\* cleared. The bulk shutdown passes over the registry once and stops only
\* what its status query finds Running; an instance the check cycle has just
\* started comes up afterwards and stays.
C26_LatchedGroupStops ==
    \A id \in InstanceIDs :
        ( /\ \E k \in 1..Len(instances) : instances[k].InstanceID = id
          /\ Latch(GroupOf(SpotInstance(id)))
          /\ cloud[id] = "Running" )
          ~> (~Latch(GroupOf(SpotInstance(id))) \/ cloud[id] # "Running")

\* The number of bulk shutdowns of group g in progress
C27_InProgress(g) ==
    BagCardinality([t \in {u \in BagToSet(shut) : u.region = g} |-> CopiesIn(t, shut)])

\* C27 (as stated): at no time are two bulk shutdowns of the same group in
\* progress. CheckTraffic clears the latch when the traffic drops under the
\* limit without waiting for the shutdown it launched, and the next breach
\* launches another.
C27_NoReentry ==
    \A g \in Groups : C27_InProgress(g) <= 1

\* The cooldown gate and the retry loop of the current checkInstance call:
\* with the gate open the timestamp is written once, at or after the time
\* the gate answered, before any start command and whatever became of the
\* alert; with the gate closed nothing is sent and the timestamp is the one
\* the gate answered from
C28_Gate ==
    LET g == chk.call.gate
        k == Inst.InstanceID
    IN /\ (g.state = "open" /\ chk.pc = "update") =>
              /\ chk.call.starts = 0
              /\ chk.call.cdWrites = 0
       /\ (g.state = "open" /\ chk.pc # "update") =>
              /\ chk.call.cdWrites = 1
              /\ lastNotify[k] # Never
              /\ lastNotify[k] >= g.at
       /\ g.state = "closed" =>
              /\ C7_Reclaimed(chk.call.notes) = {}
              /\ chk.call.cdWrites = 0
              /\ lastNotify[k] = g.last

C29_TimeoutIsFailedAttempt ==
    [][ /\ (chk.pc = "wait" /\ chk'.pc \notin {"wait", "started"}) =>
              /\ chk'.pc = "retry"
              /\ chk'.call.i = chk.call.i + 1
              /\ chk'.call.lastErr = "timeout"
              /\ chk'.call.starts = chk.call.starts
        /\ (chk.pc = "retry" /\ chk.call.i >= 1 /\ chk' # chk) =>
              IF chk.call.i < cfg.RetryCount
              THEN /\ chk'.call.starts = chk.call.starts + 1
                   /\ chk'.call.sleeps = chk.call.sleeps + 1
                   /\ chk'.call.cmds = chk.call.cmds \cup {"StartInstance"}
                   /\ chk'.call.i \in {chk.call.i, chk.call.i + 1}
              ELSE /\ chk'.pc = "return"
                   /\ chk'.call.exit = "failed"
                   /\ chk'.call.ret = chk.call.lastErr
                   /\ chk'.call.starts = chk.call.starts
      ]_vars

\* The second start command of a call, sent after the delay that followed
\* the timeout of the first one's wait
C29_Witness ==
    /\ chk.pc = "wait"
    /\ chk.call.lastErr = "timeout"
    /\ chk.call.i = 1
    /\ chk.call.starts = 2
    /\ chk.call.sleeps = 1

\* C30: every checkInstance call returns, whatever the provider does and
\* answers. The running-wait ends with success only at a poll made while the
\* instance is Running, and with the timeout only at its deadline, never
\* later, status queries that fail counting like the others; the retry loop
\* makes at most RetryCount attempts.
C30_Terminates ==
    /\ InCall ~> ~InCall
    /\ [](InCall => /\ chk.call.i <= cfg.RetryCount
                    /\ chk.call.starts <= cfg.RetryCount
                    /\ chk.call.polls <= MaxPolls)
    /\ [][(chk.pc = "wait" /\ chk'.pc = "started") =>
              cloud[Inst.InstanceID] = "Running"]_vars
    /\ [][(chk.pc = "wait" /\ chk'.pc = "retry") =>
              chk.call.polls = MaxPolls]_vars

\* A call that has returned after the waits of all its attempts timed out
C30_Witness ==
    /\ chk.pc = "return"
    /\ chk.call.exit = "failed"
    /\ chk.call.lastErr = "timeout"
    /\ chk.call.starts = 2
    /\ chk.call.i = cfg.RetryCount

\* C31: a start or a stop command that the provider rejects with
\* IncorrectInstanceStatus is returned to the caller as success. In
\* checkInstance the attempt is not counted as failed and goes on to the
\* running-wait; the bulk shutdown lists the instance among the stopped.
C31_ConflictIsSuccess ==
    [][ /\ (InCall /\ chk'.call.starts = chk.call.starts + 1 /\ chk'.call.conflict) =>
              /\ chk'.pc = "wait"
              /\ chk'.call.i = chk.call.i
              /\ chk'.call.lastErr = chk.call.lastErr
              /\ cloud' = cloud
        /\ \A u \in BagToSet(shut') : \A s \in u.stops : s.conflict => ~s.err
      ]_vars

\* A rejected start command, followed by the wait, beside a rejected stop
\* command of a bulk shutdown
C31_Witness ==
    /\ chk.pc = "wait"
    /\ chk.call.conflict
    /\ chk.call.i = 0
    /\ \E t \in BagToSet(shut) : \E s \in t.stops :
           s.conflict /\ s.InstanceID \in Range(t.stopped)

\* C32: a checkInstance call whose initial status query failed has asked
\* the cooldown gate nothing, issued no command, sent no notification and
\* written no cooldown time, and returns the error; the step that fails
\* leaves the cooldown table and the provider alone; the check cycle logs
\* the error and goes on with the next instance.
C32_StatusErrorSkips ==
    /\ [](chk.call.exit = "status error" =>
            /\ chk.pc = "return"
            /\ chk.call.ret = "status error"
            /\ chk.call.starts = 0
            /\ chk.call.cmds = {}
            /\ chk.call.notes = <<>>
            /\ chk.call.cdWrites = 0
            /\ chk.call.gate = NoGate)
    /\ [][(chk.pc = "status" /\ chk'.call.exit = "status error") =>
             /\ lastNotify' = lastNotify
             /\ lastDelivered' = lastDelivered
             /\ cloud' = cloud
             /\ instances' = instances]_vars
    /\ [][(chk.call.exit = "status error" /\ chk' # chk) =>
             /\ chk'.pc = "loop"
             /\ chk'.idx = chk.idx + 1
             /\ chk'.calls[chk.idx].failed
             /\ chk'.ret = chk.ret
             /\ lastNotify' = lastNotify]_vars

\* The status query of a released instance that is still in the registry
\* has failed, after an alert for it was recorded in the cooldown table
C32_Witness ==
    /\ chk.pc = "return"
    /\ chk.call.exit = "status error"
    /\ cloud[Inst.InstanceID] = Released
    /\ lastNotify[Inst.InstanceID] # Never

\* C33: a CheckTraffic call whose query fails, or made with traffic shutdown
\* disabled, leaves both latches, the bulk shutdowns in progress and what the
\* last successful query returned as they are, and launches nothing. The
\* successful call that follows a failed one sets each latch to whether the
\* group is at or over its limit and launches the bulk shutdown of the
\* groups that are and whose latch was clear, as any successful call does.
C33_FailedCallLeavesLatches ==
    [][ /\ (TrafficQueryFails \/ TrafficDisabled) =>
              /\ chinaShutdown' = chinaShutdown
              /\ nonChinaShutdown' = nonChinaShutdown
              /\ shut' = shut
              /\ traffic'.launched = {}
              /\ traffic'.ret = (IF cfg.TrafficShutdownEnabled THEN "query error" ELSE "nil")
              /\ [traffic' EXCEPT !.ret = traffic.ret, !.launched = traffic.launched] = traffic
        /\ (traffic.ret = "query error" /\ traffic'.ret = "nil") =>
              /\ chinaShutdown' = (traffic'.seen.china >= TrafficLimitChinaGB)
              /\ nonChinaShutdown' = (traffic'.seen.nonChina >= TrafficLimitNonChinaGB)
              /\ traffic'.launched =
                   {g \in Groups : OverLimit(g, traffic'.seen) /\ ~Latch(g)}
              /\ BagCardinality(shut') =
                   BagCardinality(shut) + Cardinality(traffic'.launched)
      ]_vars

\* A failed query while a latch is set and its bulk shutdown in progress
C33_Witness ==
    /\ traffic.ret = "query error"
    /\ chinaShutdown
    /\ ~nonChinaShutdown
    /\ \E t \in BagToSet(shut) : t.region = "china" /\ t.pc = "loop"

\* How far the goroutine of a region has come
C34_Rank(task) ==
    CASE task = "queued" -> 0
      [] task = "listing" -> 1
      [] task = "append" -> 2
      [] task = "done" -> 3

\* C34: during a discovery at most as many listings are in flight as the
\* semaphore has slots; the goroutine of a region takes a slot, lists the
\* region once, appends what it found if anything, and ends, never going
\* back; the discovery returns a result only when every goroutine has ended.
C34_BoundedScan ==
    /\ [](Cardinality(Holding(disc.scan)) <= MaxConcurrentScans)
    /\ [](disc.scan.pc = "done" /\ ~disc.scan.err =>
             \A r \in Regions : disc.scan.task[r] = "done")
    /\ [][disc.scan.pc = "scanning" /\ disc'.scan.pc # "idle" =>
            \A r \in Regions :
               LET a == C34_Rank(disc.scan.task[r])
                   b == C34_Rank(disc'.scan.task[r])
               IN /\ b >= a
                  /\ b > a => <<a, b>> \in {<<0, 1>>, <<1, 2>>, <<1, 3>>, <<2, 3>>}
                  /\ (a = 1 /\ b > 1) =>
                        \/ r \in disc'.scan.failed /\ b = 3
                        \/ disc'.scan.got[r] \in
                             {g.list : g \in {h \in GetSpotInstances(r) : ~h.err}}
                  /\ (a # 1 \/ b = a) =>
                        /\ disc'.scan.got[r] = disc.scan.got[r]
                        /\ (r \in disc'.scan.failed) = (r \in disc.scan.failed)]_vars

\* Every slot of the semaphore is taken and a goroutine waits for one
C34_Witness ==
    /\ disc.scan.pc = "scanning"
    /\ Cardinality(Holding(disc.scan)) = MaxConcurrentScans
    /\ \E r \in Regions : disc.scan.task[r] = "queued"

\* C35: the registry changes only in the reconciliation of a check cycle and
\* in a DiscoverInstances call, and then to the list the discovery returned;
\* no step of checkInstance, of a bulk shutdown, of a traffic check or of a
\* handler of the bot changes the registry or a record in it.
C35_RegistryFrame ==
    [][instances' # instances =>
         /\ \/ chk.pc = "idle" /\ chk'.pc = "snapshot" /\ refreshLog'.ran
            \/ disc'.calls = disc.calls + 1 /\ disc'.ret = "nil"
         /\ \E d \in DiscoverAllSpotInstances : ~d.err /\ instances' = d.list
      ]_vars

\* A checkInstance call has refreshed its record of the instance it started
\* and returned; the registry holds the record as discovered
C35_Witness ==
    /\ chk.pc = "return"
    /\ chk.call.exit = "started"
    /\ chk.call.inst # Inst
    /\ chk.call.inst.InstanceID = Inst.InstanceID
    /\ \E k \in 1..Len(instances) : instances[k] = Inst

\* C36: a CheckGCPCredits call sends the low-credit alert only if the
\* remaining percentage is at or below the threshold and the cooldown of
\* "gcp-credits" allows it, and sends none while the cooldown does not; it
\* writes the cooldown time if and only if the alert was delivered, so that a
\* failed delivery leaves the table as it was; a delivered alert comes more
\* than a cooldown window after the last delivered one.
C36_CreditsAlert ==
    [][CheckGCPCredits =>
         LET key == "gcp-credits"
             sent == gcp'.notes # <<>>
             delivered == sent /\ gcp'.notes[1].delivered
         IN /\ sent => /\ Len(gcp'.notes) = 1
                       /\ gcp'.notes[1].kind = "credits low"
                       /\ gcp'.pct <= cfg.GCPCreditsAlertPercent
                       /\ lastNotify[key] = Never \/ now - lastNotify[key] > NotifyCooldown
            /\ lastNotify' = IF delivered THEN [lastNotify EXCEPT ![key] = now]
                             ELSE lastNotify
            /\ delivered =>
                  lastDelivered[key] = Never \/ now - lastDelivered[key] > NotifyCooldown
            /\ (sent /\ ~delivered) =>
                  lastNotify'[key] = Never \/ now - lastNotify'[key] > NotifyCooldown
       ]_vars

\* A failed delivery of the alert, more than a window after a delivered one
C36_Witness ==
    /\ gcp.ret = "notify error"
    /\ gcp.gate = "open"
    /\ lastNotify["gcp-credits"] # Never
    /\ gcp.at - lastNotify["gcp-credits"] > NotifyCooldown
    /\ lastDelivered["gcp-credits"] = lastNotify["gcp-credits"]

----------------------------------------------------------------------------
(* The polling loop beside Telegram *)

\* The bot polls while Telegram receives updates from the chat of the
\* configuration and from others
InitPoll ==
    \E c \in Configs, chatID \in ChatIDs :
      \E R \in Discovered({"i-001"}) :
        /\ c.RetryCount = 1
        /\ c.TelegramEnabled
        /\ ~c.TrafficShutdownEnabled
        /\ New(c, {}, {"i-001"}, R, chatID)
        /\ gcp = GcpIdle
        /\ cbwp = CbwpIdle

NextPoll == PollUpdates \/ TelegramReceives

SpecPoll == InitPoll /\ [][NextPoll]_vars

----------------------------------------------------------------------------
(* C37: only the configured chat reaches the handlers *)

\* The decimal digits of a natural number
RECURSIVE C37_Digits(_)
C37_Digits(n) ==
    LET d == CHOOSE c \in DOMAIN DigitValue : DigitValue[c] = n % 10
    IN IF n < 10 THEN <<d>> ELSE C37_Digits(n \div 10) \o <<d>>

\* The chat the configuration names is the one whose id, written in
\* decimal, is TELEGRAM_CHAT_ID
C37_FromConfiguredChat(update) ==
    /\ update.kind \in {"callback", "message"}
    /\ poll.chatID = IF update.chat < 0 THEN <<"-">> \o C37_Digits(0 - update.chat)
                     ELSE C37_Digits(update.chat)

\* C37: the polling loop hands an update to a handler only when it comes
\* from the configured chat; an update from any other chat (or from none)
\* is passed by without a handler call, and the offset moves to it all the
\* same
C37_OnlyConfiguredChat ==
    /\ [](\A k \in 1..Len(poll.handled) : C37_FromConfiguredChat(poll.handled[k]))
    /\ [][bot'.n # bot.n => poll.pc = "call" /\ C37_FromConfiguredChat(poll.cur)]_vars
    /\ [][(poll.pc = "loop" /\ poll.batch # <<>> /\ poll'.sent = poll.sent
             /\ poll' # poll)
          => /\ poll'.lastUpdateID = Head(poll.batch).id
             /\ ~C37_FromConfiguredChat(Head(poll.batch))
                => /\ poll'.pc = "loop"
                   /\ poll'.batch = Tail(poll.batch)
                   /\ poll'.handled = poll.handled
                   /\ bot' = bot]_vars

\* A command from another chat was passed by, the offset is beyond it, and
\* the command that followed it from the configured chat was handed over
C37_Witness ==
    /\ Len(poll.queue) = 2
    /\ poll.queue[1].kind = "message"
    /\ HasPrefix(poll.queue[1].payload)
    /\ ~C37_FromConfiguredChat(poll.queue[1])
    /\ poll.lastUpdateID = 2
    /\ Len(poll.handled) = 1
    /\ poll.handled[1].id = 2
    /\ poll.pc = "idle"

----------------------------------------------------------------------------
(* C38: the error of a handler stays in the log *)

\* C38: PollUpdates returns nil or the error of the request, never the
\* error of a handler; after a handler has returned, with an error or
\* without, the loop goes on with the next update of the response, the
\* offset at or beyond the update handed over; a call that has begun its
\* loop ends only with the response used up and nil; and no update is
\* handed to a handler twice
C38_HandlerErrorLogged ==
    /\ [](poll.ret \in {"none", "nil", "get error"})
    /\ [](\A id \in poll.logged : id <= poll.lastUpdateID)
    /\ [](\A j, k \in 1..Len(poll.handled) :
            poll.handled[j].id = poll.handled[k].id => j = k)
    /\ [][(poll.pc = "call" /\ poll'.pc # "call")
          => /\ poll'.pc = "loop"
             /\ poll'.batch = Tail(poll.batch)
             /\ poll'.ret = poll.ret
             /\ poll'.lastUpdateID >= poll.cur.id
             /\ poll'.handled = Append(poll.handled, poll.cur)]_vars
    /\ [][(poll.pc # "idle" /\ poll'.pc = "idle")
          => /\ poll.batch = <<>>
             /\ poll'.ret = "nil"]_vars

\* The handler of the first update of a response failed, the second update
\* was handed over all the same, the call returned nil and the next call
\* has found nothing to hand over again
C38_Witness ==
    /\ Len(poll.handled) = 2
    /\ poll.handled[1].id = 1
    /\ poll.handled[2].id = 2
    /\ 1 \in poll.logged
    /\ poll.lastUpdateID = 2
    /\ poll.queue = <<>>
    /\ poll.pc = "idle"
    /\ poll.ret = "nil"

----------------------------------------------------------------------------
(* C39: the options of the menu are honoured as displayed *)

\* The callback that follows the menu of an instance is the press of
\* button: the handler and the arguments are the parts of its data
C39_Pressed(button, call) ==
    button.parts = <<"cbwp", call.handler, call.instanceID, call.bwpID>>

\* C39: when the callback that follows the menu of an instance is a bind or
\* an unbind, the bindings as the menu showed them, then for every button
\* of the menu with the data of the callback, whatever the handler attaches
\* or detaches is the EIP the button was shown under, and an attach is to
\* the pool of the button
C39_OptionsHonoured ==
    [][(/\ cbwp.call.handler = "select"
        /\ cbwp.call.msg = "menu"
        /\ cbwp'.n = cbwp.n + 1
        /\ cbwp'.call.handler \in {"bind", "unbind"})
       => \A k \in 1..Len(cbwp.call.keyboard) :
            LET button == cbwp.call.keyboard[k]
                call == cbwp'.call
            IN C39_Pressed(button, call)
               => /\ \A j \in 1..Len(call.attaches) :
                       /\ call.attaches[j].eipID = button.under
                       /\ call.attaches[j].bandwidthPackageID = button.parts[4]
                  /\ \A j \in 1..Len(call.detaches) :
                       call.detaches[j].eipID = button.under]_vars

====
